---- MODULE Spec2Model ----
(***************************************************************************)
(* Squad Orchestration Engine of phantom: the Pane Allocator (TmuxManager) *)
(* and the Orchestrator (AgentOrchestrator), together with the terminal    *)
(* multiplexer and the worktree directories they act on; and the Session    *)
(* Continuity Manager (ClaudeSessionManager) with its session files and    *)
(* the conversational subprocess whose events it listens to.               *)
(*                                                                         *)
(* Every operation is one action.  The outcomes of the external commands   *)
(* it issues (tmux, git) are inputs of the action; the calls it makes are  *)
(* recorded, in order, in last.log.                                        *)
(***************************************************************************)
EXTENDS Integers, Sequences, FiniteSets, TLC

\* ---------------------------------------------------------------- bounds
\* agents of a configuration handed to setupTeam
MaxAgents == 2

\* agents of a configuration handed to createLayout directly
MaxLayoutAgents == 3

\* setupTeam / createLayout calls made on one orchestrator in one run
MaxRounds == 2

\* largest agent count getSplitDirection is applied to on its own
MaxSplitAgents == 8

\* startOrResumeSession calls made on one session manager in one run
MaxSessionCalls == 2

\* longest message sendMessage is called with, in characters
MaxMessageLen == 2

\* agents of a squad section handed to validateConfig
MaxConfigAgents == 2

\* the agents configurations are drawn from: two that ask for a worktree, one that does not
AgentPool ==
  {[name |-> "a", worktree |-> TRUE], [name |-> "b", worktree |-> TRUE],
   [name |-> "c", worktree |-> FALSE]}

\* the roster createLayout's configurations take their agents from, cyclically
Roster ==
  <<[name |-> "a", worktree |-> TRUE], [name |-> "b", worktree |-> TRUE],
    [name |-> "c", worktree |-> FALSE]>>

\* the session name the constructor defaults to, and the one setupTeam is called with
DefaultSessionName == "phantom-squad"

Layouts == {"auto", "grid", "main-vertical"}

\* createLayout takes the layout as a string: one value outside the enum
LayoutModes == Layouts \cup {"spiral"}

ProvisionErrors == {"WorktreeAlreadyExistsError", "GitOperationError"}

Absent == [absent |-> TRUE]

\* ---------------------------------------------------------------- state
VARIABLES
  sessionName,       \* TmuxManager.sessionName, fixed by the constructor
  paneMapping,       \* TmuxManager.paneMapping: Map agent name -> PaneInfo, in insertion order
  currentPaneIndex,  \* TmuxManager.currentPaneIndex
  squadContext,      \* AgentOrchestrator.squadContext (Absent when undefined)
  tmuxAlive,         \* the multiplexer holds a session named sessionName
  spawned,           \* panes the allocator has spawned in that session
  worktrees,         \* isolation directories on disk, by name
  laidOut,           \* agent names of the SquadConfig most recently laid out
  last,              \* the last operation: its config, the calls it made, its result
  rounds,            \* number of setupTeam / createLayout calls made so far
  sessionFiles,      \* the session directory: path -> entry (Absent when missing)
  claude,            \* the startOrResumeSession call under way and its subprocess
  savedSessions,     \* session name -> what was last saved under it and not removed since
  tool               \* the AgentToolFactory (Absent until one is created): availableAgents

vars == <<sessionName, paneMapping, currentPaneIndex, squadContext,
          tmuxAlive, spawned, worktrees, laidOut, last, rounds, sessionFiles, claude,
          savedSessions, tool>>

squadVars == <<sessionName, paneMapping, currentPaneIndex, squadContext,
               tmuxAlive, spawned, worktrees, laidOut, rounds>>

claudeVars == <<sessionFiles, claude, savedSessions>>

toolVars == <<tool>>

\* ---------------------------------------------------------------- data
\* sequences of 1..n agents of the pool with pairwise distinct names
AgentSeqs(n) ==
  {q \in UNION {[1..k -> AgentPool] : k \in 1..n} :
     \A i, j \in 1..Len(q) : i # j => q[i].name # q[j].name}

\* configurations setupTeam is driven with: the orchestrator hands the layout to
\* createLayout untouched, SpecTmux drives createLayout with every layout
TeamConfig == [agents : AgentSeqs(MaxAgents), layout : {"auto"}]

\* 1..n successive agents of the roster, taken cyclically from any start: a name
\* comes twice once n exceeds the roster
Windows(n) ==
  {[i \in 1..k |-> Roster[((start + i - 2) % Len(Roster)) + 1]] :
     start \in 1..Len(Roster), k \in 1..n}

\* configurations createLayout is driven with directly; the allocator does not validate
\* its argument, so the empty agent list is among them
LayoutConfig == [agents : Windows(MaxLayoutAgents) \cup {<<>>}, layout : LayoutModes]

Names(agents) == {agents[i].name : i \in 1..Len(agents)}

Ev(op, arg, out) == [op |-> op, arg |-> arg, out |-> out]

OkErr(b) == IF b THEN "ok" ELSE "err"

\* Number.prototype.toString for a non-negative integer, as a sequence of characters
DigitChars == <<"0", "1", "2", "3", "4", "5", "6", "7", "8", "9">>

RECURSIVE toString(_)
toString(n) ==
  IF n < 10 THEN <<DigitChars[n + 1]>>
  ELSE Append(toString(n \div 10), DigitChars[(n % 10) + 1])

PaneInfo(id, agentName, index) == [id |-> id, agentName |-> agentName, index |-> index]

\* Map.prototype.set on the insertion-ordered pane mapping (key = agent name)
MapSet(m, key, pane) ==
  IF \E i \in 1..Len(m) : m[i].agentName = key
  THEN [i \in 1..Len(m) |-> IF m[i].agentName = key THEN pane ELSE m[i]]
  ELSE Append(m, pane)

\* ---------------------------------------------------------------- TmuxManager
getSplitDirection_autoByPairs(layout, index, totalAgents) ==
  CASE layout = "grid" -> IF index % 2 = 1 THEN "horizontal" ELSE "vertical"
    [] layout = "main-vertical" -> IF index = 1 THEN "vertical" ELSE "horizontal"
    [] OTHER ->
         IF totalAgents <= 2 THEN "vertical"
         ELSE IF index % 2 = 1 THEN "vertical" ELSE "horizontal"

getSplitDirection(layout, index, totalAgents) ==
  CASE layout = "grid" -> IF index % 2 = 1 THEN "horizontal" ELSE "vertical"
    [] layout = "main-vertical" -> IF index = 1 THEN "vertical" ELSE "horizontal"
    [] OTHER ->
         IF totalAgents <= 2 THEN "vertical"
         ELSE IF totalAgents <= 4
              THEN (IF index % 2 = 1 THEN "vertical" ELSE "horizontal")
              ELSE (IF index % 3 = 1 THEN "vertical" ELSE "horizontal")

applyLayoutName_alwaysTiled(layout, agentCount) ==
  CASE layout = "main-vertical" -> "main-vertical"
    [] OTHER -> "tiled"

\* the switch of applyLayout: the tmux layout name for a layout mode and an agent count
applyLayoutName(layout, agentCount) ==
  CASE layout = "grid" -> "tiled"
    [] layout = "main-vertical" -> "main-vertical"
    [] OTHER -> IF agentCount <= 2 THEN "even-horizontal" ELSE "tiled"

ProcessError(cmd) == [name |-> "ProcessError", message |-> cmd]

\* What createLayout works on: the allocator's fields, the multiplexer, the agent names
\* laid out, the panes collected so far, the commands issued so far.
LayoutState(m, cpi, alive, np, lo) ==
  [paneMapping |-> m, currentPaneIndex |-> cpi, alive |-> alive, spawned |-> np,
   laidOut |-> lo, panes |-> <<>>, cmds |-> <<>>, ok |-> TRUE, error |-> Absent]

createPane_ignoresFailure(st, agent, layout, index, totalAgents, fails) ==
  LET direction == getSplitDirection(layout, index, totalAgents)
      resultOk == st.alive /\ ~fails
      issued == [st EXCEPT !.cmds = Append(@, Ev("split-window", direction, OkErr(resultOk)))]
      paneInfo == PaneInfo(toString(st.currentPaneIndex), agent.name, st.currentPaneIndex)
  IN [issued EXCEPT !.spawned = IF resultOk THEN @ + 1 ELSE @,
                    !.currentPaneIndex = @ + 1,
                    !.panes = Append(@, paneInfo)]

\* createPane: one split-window command, then the PaneInfo from the counter
createPane(st, agent, layout, index, totalAgents, fails) ==
  LET direction == getSplitDirection(layout, index, totalAgents)
      resultOk == st.alive /\ ~fails
      issued == [st EXCEPT !.cmds = Append(@, Ev("split-window", direction, OkErr(resultOk)))]
  IN IF ~resultOk
     THEN [issued EXCEPT !.ok = FALSE, !.error = ProcessError("split-window")]
     ELSE LET paneInfo == PaneInfo(toString(st.currentPaneIndex), agent.name,
                                   st.currentPaneIndex)
          IN [issued EXCEPT !.spawned = @ + 1,
                            !.currentPaneIndex = @ + 1,
                            !.panes = Append(@, paneInfo)]

\* the loop of createLayout over agents[1..]; index i is 0-based as in the source
RECURSIVE splitLoop(_, _, _, _)
splitLoop(st, config, i, failAt) ==
  LET agents == config.agents
  IN IF i >= Len(agents) THEN st
     ELSE LET r == createPane(st, agents[i + 1], config.layout, i, Len(agents), failAt = i)
          IN IF ~r.ok THEN r
             ELSE splitLoop([r EXCEPT !.paneMapping =
                                MapSet(@, agents[i + 1].name, r.panes[Len(r.panes)])],
                            config, i + 1, failAt)

applyLayout(st, layout, agentCount, fails) ==
  LET resultOk == st.alive /\ ~fails
      issued == [st EXCEPT !.cmds =
                    Append(@, Ev("select-layout", applyLayoutName(layout, agentCount),
                                 OkErr(resultOk)))]
  IN IF ~resultOk
     THEN [issued EXCEPT !.ok = FALSE, !.error = ProcessError("select-layout")]
     ELSE issued

placeFirstPane_keepsCounter(st, agents) ==
  LET firstPane == PaneInfo(<<"0">>, agents[1].name, 0)
  IN [st EXCEPT !.paneMapping = MapSet(@, agents[1].name, firstPane),
                !.panes = <<firstPane>>]

\* the first agent takes the initial pane of the new session: id "0", index 0, counter 1
placeFirstPane(st, agents) ==
  LET firstPane == PaneInfo(<<"0">>, agents[1].name, 0)
  IN [st EXCEPT !.paneMapping = MapSet(@, agents[1].name, firstPane),
                !.panes = <<firstPane>>,
                !.currentPaneIndex = 1]

NoAgentsError ==
  [name |-> "TmuxSessionError", message |-> "No agents specified in configuration"]

createLayout_sessionFirst(m, cpi, alive, np, lo, config, failAt) ==
  LET agents == config.agents
      N == Len(agents)
      st0 == LayoutState(m, cpi, alive, np, lo)
      createOk == ~alive /\ failAt # 0
      st1 == [st0 EXCEPT !.cmds = Append(@, Ev("new-session", "", OkErr(createOk)))]
  IN IF ~createOk
     THEN [st1 EXCEPT !.ok = FALSE, !.error = ProcessError("new-session")]
     ELSE IF N = 0
          THEN [st1 EXCEPT !.alive = TRUE, !.spawned = 1, !.ok = FALSE,
                           !.error = NoAgentsError]
          ELSE LET st2 == placeFirstPane([st1 EXCEPT !.alive = TRUE, !.spawned = 1,
                                                     !.laidOut = Names(agents)],
                                         agents)
                   st3 == splitLoop(st2, config, 1, failAt)
               IN IF ~st3.ok THEN st3
                  ELSE applyLayout(st3, config.layout, N, failAt = N)

\* createLayout(squadConfig).  failAt names the multiplexer command that fails for a
\* reason of its own: 0 new-session, i in 1..N-1 the split for agent i, N select-layout,
\* anything else none.  new-session also fails when the session already exists.
createLayout(m, cpi, alive, np, lo, config, failAt) ==
  LET agents == config.agents
      N == Len(agents)
      st0 == LayoutState(m, cpi, alive, np, lo)
  IN IF N = 0
     THEN [st0 EXCEPT !.ok = FALSE, !.error = NoAgentsError]
     ELSE LET createOk == ~alive /\ failAt # 0
              st1 == [st0 EXCEPT !.cmds = Append(@, Ev("new-session", "", OkErr(createOk)))]
          IN IF ~createOk
             THEN [st1 EXCEPT !.ok = FALSE, !.error = ProcessError("new-session")]
             ELSE LET st2 == placeFirstPane([st1 EXCEPT !.alive = TRUE, !.spawned = 1,
                                                        !.laidOut = Names(agents)],
                                            agents)
                      st3 == splitLoop(st2, config, 1, failAt)
                  IN IF ~st3.ok THEN st3
                     ELSE applyLayout(st3, config.layout, N, failAt = N)

getAllPanes(m) == m

PaneNotFound(paneId) ==
  [name |-> "TmuxSessionError", message |-> "Pane with ID not found", paneId |-> paneId]

sendKeys_forwardsAlways(m, alive, paneId, cmdFails) ==
  LET resultOk == alive /\ ~cmdFails
  IN [cmds |-> <<Ev("send-keys", paneId, OkErr(resultOk))>>,
      ok |-> resultOk,
      error |-> IF resultOk THEN Absent ELSE ProcessError("send-keys")]

\* sendKeys(paneId, keys): the id is looked up among the mapping's panes; only a known
\* id is forwarded as send-keys -t <session>:<paneId>
sendKeys(m, alive, paneId, cmdFails) ==
  IF ~\E i \in 1..Len(m) : m[i].id = paneId
  THEN [cmds |-> <<>>, ok |-> FALSE, error |-> PaneNotFound(paneId)]
  ELSE LET resultOk == alive /\ ~cmdFails
       IN [cmds |-> <<Ev("send-keys", paneId, OkErr(resultOk))>>,
           ok |-> resultOk,
           error |-> IF resultOk THEN Absent ELSE ProcessError("send-keys")]

\* checkExistingSession: has-session; every failure of the command is folded into ok(false)
checkExistingSession(alive, cmdFails) ==
  LET resultOk == alive /\ ~cmdFails
  IN [ok |-> TRUE, value |-> resultOk, error |-> Absent]

attachToSession(alive, cmdFails) ==
  IF alive /\ ~cmdFails
  THEN [ok |-> TRUE, error |-> Absent]
  ELSE [ok |-> FALSE, error |-> ProcessError("attach-session")]

killSession_alwaysResets(m, cpi, alive, np, cmdFails) ==
  IF alive /\ ~cmdFails
  THEN [ok |-> TRUE, error |-> Absent, paneMapping |-> <<>>, currentPaneIndex |-> 0,
        alive |-> FALSE, spawned |-> 0]
  ELSE [ok |-> FALSE, error |-> ProcessError("kill-session"), paneMapping |-> <<>>,
        currentPaneIndex |-> 0, alive |-> alive, spawned |-> np]

\* killSession: the mapping and the counter are reset only when kill-session succeeds
killSession(m, cpi, alive, np, cmdFails) ==
  IF alive /\ ~cmdFails
  THEN [ok |-> TRUE, error |-> Absent, paneMapping |-> <<>>, currentPaneIndex |-> 0,
        alive |-> FALSE, spawned |-> 0]
  ELSE [ok |-> FALSE, error |-> ProcessError("kill-session"), paneMapping |-> m,
        currentPaneIndex |-> cpi, alive |-> alive, spawned |-> np]

\* ---------------------------------------------------------------- AgentOrchestrator
OrchestratorError(name, message, agent, cause) ==
  [name |-> name, message |-> message, agent |-> agent, cause |-> cause]

Ok(value) == [ok |-> TRUE, value |-> value, error |-> Absent]

Err(error) == [ok |-> FALSE, value |-> Absent, error |-> error]

Emit(st, ev) == [st EXCEPT !.log = Append(@, ev)]

\* the allocator's killSession applied to the orchestrator's view of the world
killStep(st, killFails) ==
  LET k == killSession(st.paneMapping, st.currentPaneIndex, st.alive, st.spawned, killFails)
  IN [st |-> [Emit(st, Ev("kill-session", "", OkErr(k.ok))) EXCEPT
                !.paneMapping = k.paneMapping, !.currentPaneIndex = k.currentPaneIndex,
                !.alive = k.alive, !.spawned = k.spawned],
      res |-> k]

cleanupWorktrees_removes(st, worktreePaths) ==
  [st EXCEPT !.worktrees = @ \ {worktreePaths[i] : i \in 1..Len(worktreePaths)}]

\* cleanupWorktrees: a placeholder that only warns; nothing is deleted
cleanupWorktrees(st, worktreePaths) ==
  [st EXCEPT !.log = @ \o [i \in 1..Len(worktreePaths) |->
                             Ev("console.warn", worktreePaths[i], "")]]

cleanup_keepsSession(st, createdWorktrees, killFails) ==
  cleanupWorktrees(st, createdWorktrees)

\* cleanup: kill the multiplexer session (errors ignored), then cleanupWorktrees
cleanup(st, createdWorktrees, killFails) ==
  cleanupWorktrees(killStep(st, killFails).st, createdWorktrees)

worktreeFailure_firstAgent(st, worktreeAgents, k, createdWorktrees, cause) ==
  [st |-> cleanupWorktrees(st, createdWorktrees),
   res |-> Err(OrchestratorError("WorktreeSetupError",
                 "Failed to create worktree for agent", worktreeAgents[1].name, cause))]

\* the failure branch of setupWorktrees: warn about what was created, name the agent
worktreeFailure(st, worktreeAgents, k, createdWorktrees, cause) ==
  [st |-> cleanupWorktrees(st, createdWorktrees),
   res |-> Err(OrchestratorError("WorktreeSetupError",
                 "Failed to create worktree for agent", worktreeAgents[k].name, cause))]

\* the options setupWorktrees passes to createWorktree
CreateWorktreeOptions(worktreeName) == [branch |-> worktreeName, base |-> "HEAD"]

\* one awaited createWorktree(gitRoot, worktreeDirectory, worktreeName, options) call
\* and what it returned
CreateWorktreeCall(worktreeName, options, out) ==
  [op |-> "createWorktree", arg |-> worktreeName, out |-> out, options |-> options]

\* the for-loop of setupWorktrees; k is the 1-based position in worktreeAgents,
\* env.provFail the position whose createWorktree fails (0: none), with env.provErr
RECURSIVE provisionLoop(_, _, _, _, _)
provisionLoop(st, worktreeAgents, k, createdWorktrees, env) ==
  IF k > Len(worktreeAgents)
  THEN [st |-> st, res |-> Ok(createdWorktrees)]
  ELSE LET agent == worktreeAgents[k]
       IN IF env.provFail = k
          THEN worktreeFailure(Emit(st, CreateWorktreeCall(agent.name,
                                         CreateWorktreeOptions(agent.name), env.provErr)),
                               worktreeAgents, k, createdWorktrees,
                               [name |-> env.provErr, message |-> agent.name])
          ELSE provisionLoop([Emit(st, CreateWorktreeCall(agent.name,
                                        CreateWorktreeOptions(agent.name), "ok"))
                                EXCEPT !.worktrees = @ \cup {agent.name}],
                             worktreeAgents, k + 1,
                             Append(createdWorktrees, agent.name), env)

setupWorktrees_everyAgent(st, agents, env) ==
  IF Len(agents) = 0
  THEN [st |-> st, res |-> Ok(<<>>)]
  ELSE IF env.gitRootThrows
       THEN [st |-> cleanupWorktrees(Emit(st, Ev("getGitRoot", "", "err")), <<>>),
             res |-> Err(OrchestratorError("WorktreeSetupError",
                           "Unexpected error during worktree setup", "",
                           [name |-> "Error", message |-> "getGitRoot"]))]
       ELSE provisionLoop(Emit(st, Ev("getGitRoot", "", "ok")), agents, 1, <<>>, env)

\* setupWorktrees(agents): a directory, named by the path createWorktree returned, for
\* each agent with the worktree flag
setupWorktrees(st, agents, env) ==
  LET worktreeAgents == SelectSeq(agents, LAMBDA agent : agent.worktree)
  IN IF Len(worktreeAgents) = 0
     THEN [st |-> st, res |-> Ok(<<>>)]
     ELSE IF env.gitRootThrows
          THEN [st |-> cleanupWorktrees(Emit(st, Ev("getGitRoot", "", "err")), <<>>),
                res |-> Err(OrchestratorError("WorktreeSetupError",
                              "Unexpected error during worktree setup", "",
                              [name |-> "Error", message |-> "getGitRoot"]))]
          ELSE provisionLoop(Emit(st, Ev("getGitRoot", "", "ok")),
                             worktreeAgents, 1, <<>>, env)

\* step 3 of setupTeam: createLayout on the allocator, its commands in the log
layoutStep(st, config, failAt) ==
  LET l == createLayout(st.paneMapping, st.currentPaneIndex, st.alive, st.spawned,
                        st.laidOut, config, failAt)
      after == [st EXCEPT !.paneMapping = l.paneMapping,
                          !.currentPaneIndex = l.currentPaneIndex,
                          !.alive = l.alive, !.spawned = l.spawned,
                          !.laidOut = l.laidOut,
                          !.log = (@ \o <<Ev("createLayout", "", "")>>) \o l.cmds
                                    \o <<Ev("createLayout.return", "", OkErr(l.ok))>>]
  IN [st |-> after, res |-> IF l.ok THEN Ok(l.panes) ELSE Err(l.error)]

agentStatuses_firstPane(agents, panes) ==
  [i \in 1..Len(agents) |->
     [name |-> agents[i].name, paneId |-> <<"0">>, status |-> "stopped"]]

\* step 4 of setupTeam: one AgentStatus per agent, paneId = panes[index]?.id || "0"
agentStatuses(agents, panes) ==
  [i \in 1..Len(agents) |->
     [name |-> agents[i].name,
      paneId |-> IF i <= Len(panes) /\ panes[i].id # <<>> THEN panes[i].id ELSE <<"0">>,
      status |-> "stopped"]]

SetupTeamResult(name, panes, agents, isResumed, createdWorktrees) ==
  [sessionName |-> name, panes |-> panes, agents |-> agents, isResumed |-> isResumed,
   createdWorktrees |-> createdWorktrees]

resumeTeam_provisionsFirst(st, name, env) ==
  LET w == setupWorktrees(st, st.squadContext.config.agents, env)
      attachResult == attachToSession(st.alive, env.attachFails)
      attached == Emit(w.st, Ev("attach-session", "", OkErr(attachResult.ok)))
  IN IF ~attachResult.ok
     THEN [st |-> attached,
           res |-> Err(OrchestratorError("TmuxSetupError",
                         "Failed to attach to existing session", "", attachResult.error))]
     ELSE [st |-> attached,
           res |-> Ok(SetupTeamResult(name, getAllPanes(st.paneMapping),
                                      st.squadContext.agents, TRUE, <<>>))]

\* the resume branch of setupTeam
resumeTeam(st, name, env) ==
  LET attachResult == attachToSession(st.alive, env.attachFails)
      attached == Emit(st, Ev("attach-session", "", OkErr(attachResult.ok)))
  IN IF ~attachResult.ok
     THEN [st |-> attached,
           res |-> Err(OrchestratorError("TmuxSetupError",
                         "Failed to attach to existing session", "", attachResult.error))]
     ELSE [st |-> attached,
           res |-> Ok(SetupTeamResult(name, getAllPanes(st.paneMapping),
                                      st.squadContext.agents, TRUE, <<>>))]

\* steps 3 and 4 of setupTeam, after the worktrees
layoutAndAgents(st, config, name, createdWorktrees, env) ==
  LET l == layoutStep(st, config, env.failAt)
  IN IF ~l.res.ok
     THEN [st |-> cleanup(l.st, createdWorktrees, env.killFails),
           res |-> Err(OrchestratorError("TmuxSetupError",
                         "Failed to create tmux layout", "", l.res.error))]
     ELSE LET panes == l.res.value
              agents == agentStatuses(config.agents, panes)
          IN [st |-> Emit([l.st EXCEPT !.squadContext.agents = agents],
                          Ev("setAgents", "", "")),
              res |-> Ok(SetupTeamResult(name, panes, agents, FALSE, createdWorktrees))]

buildTeam_layoutFirst(st, config, name, env) ==
  LET l == layoutAndAgents(st, config, name, <<>>, env)
  IN IF ~l.res.ok THEN l
     ELSE LET w == setupWorktrees(l.st, config.agents, env)
          IN IF ~w.res.ok THEN w
             ELSE [st |-> w.st,
                   res |-> Ok([l.res.value EXCEPT !.createdWorktrees = w.res.value])]

\* steps 2 to 4 of setupTeam
buildTeam(st, config, name, env) ==
  LET w == setupWorktrees(st, config.agents, env)
  IN IF ~w.res.ok THEN w
     ELSE layoutAndAgents(w.st, config, name, w.res.value, env)

\* setupTeam(squadConfig, sessionName)
setupTeam(st, config, name, env) ==
  LET init == Emit([st EXCEPT !.squadContext =
                       [sessionName |-> name, config |-> config, agents |-> <<>>]],
                   Ev("setContext", "", ""))
      sessionCheckResult == checkExistingSession(st.alive, env.probeFails)
      probed == Emit(init, Ev("has-session", "",
                              IF env.probeFails THEN "failed"
                              ELSE IF st.alive THEN "exists" ELSE "absent"))
  IN IF ~sessionCheckResult.ok
     THEN [st |-> probed,
           res |-> Err(OrchestratorError("TmuxSetupError",
                         "Failed to check existing tmux session", "",
                         sessionCheckResult.error))]
     ELSE IF sessionCheckResult.value
          THEN resumeTeam(probed, name, env)
          ELSE buildTeam(probed, config, name, env)

terminateSquad_alwaysClears(st, killFails) ==
  LET k == killStep(st, killFails)
      cleared == Emit([k.st EXCEPT !.squadContext = Absent], Ev("clearContext", "", ""))
  IN IF ~k.res.ok
     THEN [st |-> cleared,
           res |-> Err(OrchestratorError("TmuxSetupError", "Failed to kill tmux session",
                                         "", k.res.error))]
     ELSE [st |-> cleared, res |-> Ok(Absent)]

\* terminateSquad()
terminateSquad(st, killFails) ==
  LET k == killStep(st, killFails)
  IN IF ~k.res.ok
     THEN [st |-> k.st,
           res |-> Err(OrchestratorError("TmuxSetupError", "Failed to kill tmux session",
                                         "", k.res.error))]
     ELSE [st |-> Emit([k.st EXCEPT !.squadContext = Absent], Ev("clearContext", "", "")),
           res |-> Ok(Absent)]

\* ---------------------------------------------------------------- ClaudeSessionManager
\* Strings the manager scans or stores are sequences of characters; messages are
\* sequences of fragments.
\* session names startOrResumeSession is called with
SessionKeys == {<<"s">>, <<"t">>}

\* session names the storage operations are called with: names are not validated, so
\* one carries a "." path segment and one carries the file suffix inside
StoreNames == {<<"s">>, <<".", "/", "s">>, <<"s", ".session", "t">>}

AllNames == SessionKeys \cup StoreNames

\* the session directory itself, as a path relative to it
SessionDirectory == <<>>

\* path.join's normalisation of a relative path: "." segments are dropped
RECURSIVE normalize(_)
normalize(path) ==
  IF path = <<>> THEN <<>>
  ELSE IF Len(path) >= 2 /\ path[1] = "." /\ path[2] = "/"
       THEN normalize(SubSeq(path, 3, Len(path)))
       ELSE IF \E k \in 1..Len(path) : path[k] = "/"
            THEN LET k == CHOOSE i \in 1..Len(path) :
                            path[i] = "/" /\ \A j \in 1..(i - 1) : path[j] # "/"
                 IN SubSeq(path, 1, k) \o normalize(SubSeq(path, k + 1, Len(path)))
            ELSE path

\* getSessionFilePath: join(sessionDirectory, `${sessionName}.session`)
getSessionFilePath(name) == normalize(name \o <<".session">>)

SessionPaths == {getSessionFilePath(name) : name \in AllNames}

Directory == [directory |-> TRUE]

EmptyStore == [path \in SessionPaths \cup {SessionDirectory} |-> Absent]

Saved(sessionId) == [sessionId |-> sessionId]

NothingSaved == [name \in AllNames |-> Absent]

AgentNames == {"", "reviewer"}

ClaudeConfig == [timeout |-> "30000"]

TokenPrefix == <<"s", "e", "s", "s", "-">>

\* the characters of the model's alphabet that [a-zA-Z0-9] accepts
AlnumChars == {"s", "e", "a", "b", "n", "o", "1", "2"}

Whitespace == {" ", "\n"}

TokenA1 == TokenPrefix \o <<"a", "1">>

\* what the subprocess writes to standard output, in all
StdoutScripts ==
  {<<>>, <<"n", "o", "\n">>, TokenA1, (<<"o", " ">> \o TokenA1) \o <<"\n">>}

\* what the subprocess writes to standard error, in all
StderrScripts == {<<>>, <<"boom">>}

ExitCodes == {"0", "1"}

ClaudeError(name, message) == [name |-> name, message |-> message]

ClaudeSessionSpawnError(message) ==
  ClaudeError("ClaudeSessionSpawnError",
              <<"Failed to spawn claude code process: ">> \o message)

ClaudeSessionFileError(message) ==
  ClaudeError("ClaudeSessionFileError", <<"Session file operation failed: ">> \o message)

ClaudeSessionParseError(message) ==
  ClaudeError("ClaudeSessionParseError", <<"Failed to parse session ID: ">> \o message)

\* the end of the longest run of [a-zA-Z0-9] that starts at q
RunEnd(str, q) ==
  CHOOSE e \in q..Len(str) :
    /\ \A k \in q..e : str[k] \in AlnumChars
    /\ e = Len(str) \/ str[e + 1] \notin AlnumChars

MatchAt(str, p) ==
  /\ p + 5 <= Len(str)
  /\ SubSeq(str, p, p + 4) = TokenPrefix
  /\ str[p + 5] \in AlnumChars

\* str.match(/sess-[a-zA-Z0-9]+/): the leftmost, longest match; <<>> for null
sessionMatch(str) ==
  IF \E p \in 1..Len(str) : MatchAt(str, p)
  THEN LET p == CHOOSE q \in 1..Len(str) :
                  MatchAt(str, q) /\ \A r \in 1..(q - 1) : ~MatchAt(str, r)
       IN SubSeq(str, p, RunEnd(str, p + 5))
  ELSE <<>>

\* String.prototype.trim
trim(str) ==
  IF \A k \in 1..Len(str) : str[k] \in Whitespace THEN <<>>
  ELSE LET a == CHOOSE i \in 1..Len(str) :
                  str[i] \notin Whitespace /\ \A k \in 1..(i - 1) : str[k] \in Whitespace
           b == CHOOSE j \in 1..Len(str) :
                  str[j] \notin Whitespace /\ \A k \in (j + 1)..Len(str) : str[k] \in Whitespace
       IN SubSeq(str, a, b)

\* sessionId.match(/^sess-[a-zA-Z0-9]+$/)
isSessionId(str) ==
  /\ Len(str) > Len(TokenPrefix)
  /\ SubSeq(str, 1, Len(TokenPrefix)) = TokenPrefix
  /\ \A k \in (Len(TokenPrefix) + 1)..Len(str) : str[k] \in AlnumChars

SessionFile(content) == [content |-> content, readable |-> TRUE]

buildCommandString_dropsAgent(sessionId, agentName) ==
  <<"claude code --session ">> \o sessionId

\* buildCommandString: the template literal, with the agent part for a truthy agentName
buildCommandString(sessionId, agentName) ==
  LET baseCommand == <<"claude code --session ">> \o sessionId
  IN IF agentName # "" THEN baseCommand \o <<" --agent ", agentName>> ELSE baseCommand

saveSession_keepsOld(files, name, sessionId, fails) ==
  IF fails
  THEN [files |-> files,
        res |-> Err(ClaudeSessionFileError(<<"Failed to save session ">> \o name))]
  ELSE [files |-> files, res |-> Ok(Absent)]

\* saveSession(sessionName, sessionId); fails: mkdirSync or writeFileSync throws
saveSession(files, name, sessionId, fails) ==
  IF fails
  THEN [files |-> files,
        res |-> Err(ClaudeSessionFileError(<<"Failed to save session ">> \o name))]
  ELSE [files |-> [files EXCEPT ![SessionDirectory] = Directory,
                                ![getSessionFilePath(name)] = SessionFile(sessionId)],
        res |-> Ok(Absent)]

loadExistingSession_noPatternCheck(files, name) ==
  LET sessionFile == getSessionFilePath(name)
  IN
  IF files[sessionFile] = Absent
  THEN Err(ClaudeSessionFileError(<<"Session file not found: ">> \o sessionFile))
  ELSE IF ~files[sessionFile].readable
       THEN Err(ClaudeSessionFileError(<<"Failed to load session ">> \o name))
       ELSE Ok(trim(files[sessionFile].content))

\* loadExistingSession(sessionName)
loadExistingSession(files, name) ==
  LET sessionFile == getSessionFilePath(name)
  IN
  IF files[sessionFile] = Absent
  THEN Err(ClaudeSessionFileError(<<"Session file not found: ">> \o sessionFile))
  ELSE IF ~files[sessionFile].readable
       THEN Err(ClaudeSessionFileError(<<"Failed to load session ">> \o name))
       ELSE LET sessionId == trim(files[sessionFile].content)
            IN IF sessionId = <<>> \/ ~isSessionId(sessionId)
               THEN Err(ClaudeSessionParseError(<<"Invalid session ID format: ">>
                                                  \o sessionId))
               ELSE Ok(sessionId)

\* removeSession(sessionName); fails: unlink throws
removeSession(files, name, fails) ==
  LET sessionFile == getSessionFilePath(name)
  IN IF files[sessionFile] = Absent
     THEN [files |-> files, res |-> Ok(Absent)]
     ELSE IF fails
          THEN [files |-> files,
                res |-> Err(ClaudeSessionFileError(<<"Failed to remove session ">>
                                                     \o name))]
          ELSE [files |-> [files EXCEPT ![sessionFile] = Absent], res |-> Ok(Absent)]

\* String.prototype.replace(part, ""): the first occurrence of part is dropped
replaceFirst(str, part) ==
  IF \E k \in 1..Len(str) : str[k] = part
  THEN LET k == CHOOSE i \in 1..Len(str) :
                  str[i] = part /\ \A j \in 1..(i - 1) : str[j] # part
       IN SubSeq(str, 1, k - 1) \o SubSeq(str, k + 1, Len(str))
  ELSE str

endsWith(str, part) == str # <<>> /\ str[Len(str)] = part

\* the entries of the session directory
Entries(files) == {path \in SessionPaths : files[path] # Absent}

\* readdir(sessionDirectory): the entries, in the order readdir gives them
readdir(files, order) == order

\* listSessions(); fails: readdir throws
listSessions(files, order, fails) ==
  IF files[SessionDirectory] = Absent THEN Ok(<<>>)
  ELSE IF fails THEN Err(ClaudeSessionFileError(<<"Failed to list sessions">>))
       ELSE LET found == SelectSeq(readdir(files, order),
                                   LAMBDA file : endsWith(file, ".session"))
            IN Ok([i \in 1..Len(found) |-> replaceFirst(found[i], ".session")])

\* No call has been made yet.  sessionId <<>> is null; result Absent is a promise
\* not yet resolved; first is the first of the subprocess's decisive events.
NoCall ==
  [phase |-> "idle", calls |-> 0, sessionName |-> <<>>, agentName |-> "",
   process |-> FALSE, spawnFails |-> FALSE, out |-> <<>>, errOut |-> <<>>,
   delivered |-> 0, errDelivered |-> FALSE,
   stdout |-> <<>>, stderr |-> <<>>, sessionId |-> <<>>, timeout |-> "none",
   kills |-> 0, exited |-> FALSE, exitCode |-> "", errored |-> FALSE, saved |-> FALSE,
   first |-> "none", resolves |-> 0, result |-> Absent]

\* the part of startOrResumeSession that runs once startNewSession has resolved
newSessionResult(c, r) ==
  IF ~r.ok THEN Err(r.error)
  ELSE Ok([sessionId |-> r.value.sessionId, isNew |-> TRUE,
           commandString |-> buildCommandString(r.value.sessionId, c.agentName)])

resolve_lastWins(c, r) ==
  [c EXCEPT !.resolves = @ + 1, !.result = newSessionResult(c, r), !.phase = "returned"]

\* resolve of the promise of startNewSession: only the first call settles it
resolve(c, r) ==
  [c EXCEPT !.resolves = @ + 1,
            !.result = IF @ = Absent THEN newSessionResult(c, r) ELSE @,
            !.phase = "returned"]

clearTimeout(c) == [c EXCEPT !.timeout = IF @ = "armed" THEN "cleared" ELSE @]

kill(c) == [c EXCEPT !.kills = @ + 1]

Decisive(c, event) == [c EXCEPT !.first = IF @ = "none" THEN event ELSE @]

onTimeout_keepsWaiting(c) ==
  [Decisive(c, "timeout") EXCEPT !.timeout = "fired"]

\* the setTimeout callback of startNewSession
onTimeout(c) ==
  LET killed == kill([Decisive(c, "timeout") EXCEPT !.timeout = "fired"])
  IN IF killed.sessionId = <<>>
     THEN resolve(killed, Err(ClaudeSessionSpawnError(
                    <<"Session startup timed out after ", ClaudeConfig.timeout, "ms">>)))
     ELSE killed

\* the stdout "data" listener; saveFails: the outcome of saveSession if it is reached
onStdoutData(c, files, chunk, saveFails) ==
  LET read == [c EXCEPT !.stdout = @ \o chunk, !.delivered = @ + Len(chunk)]
      sessionMatched == sessionMatch(read.stdout)
  IN IF sessionMatched # <<>> /\ read.sessionId = <<>>
     THEN LET found == clearTimeout([Decisive(read, "token") EXCEPT
                                       !.sessionId = sessionMatched])
              saveResult == saveSession(files, c.sessionName, sessionMatched, saveFails)
              resolved == IF saveResult.res.ok
                          THEN resolve([found EXCEPT !.saved = TRUE],
                                       Ok([sessionId |-> sessionMatched]))
                          ELSE resolve(found, Err(saveResult.res.error))
          IN [claude |-> kill(resolved), files |-> saveResult.files]
     ELSE [claude |-> read, files |-> files]

\* the stderr "data" listener
onStderrData(c, chunk) == [c EXCEPT !.stderr = @ \o chunk, !.errDelivered = TRUE]

\* the "error" listener
onError(c, message) ==
  resolve(clearTimeout([Decisive(c, "error") EXCEPT !.errored = TRUE]),
          Err(ClaudeSessionSpawnError(<<"Process spawn failed: ", message>>)))

onExit_clearsOnly(c, code, signal) ==
  clearTimeout([Decisive(c, "exit") EXCEPT !.exited = TRUE, !.exitCode = code])

onExit_codeOnly(c, code, signal) ==
  LET cleared == clearTimeout([Decisive(c, "exit") EXCEPT !.exited = TRUE,
                                                          !.exitCode = code])
      errorMessage ==
        <<"Process exited with code ", code>>
          \o (IF signal # "" THEN <<" (signal: ", signal, ")">> ELSE <<>>)
  IN IF cleared.sessionId = <<>>
     THEN resolve(cleared, Err(ClaudeSessionSpawnError(
                    <<"Failed to extract session ID. ">> \o errorMessage)))
     ELSE cleared

\* the "exit" listener
onExit(c, code, signal) ==
  LET cleared == clearTimeout([Decisive(c, "exit") EXCEPT !.exited = TRUE,
                                                          !.exitCode = code])
      errorMessage ==
        IF cleared.stderr # <<>> THEN cleared.stderr
        ELSE <<"Process exited with code ", code>>
               \o (IF signal # "" THEN <<" (signal: ", signal, ")">> ELSE <<>>)
  IN IF cleared.sessionId = <<>>
     THEN resolve(cleared, Err(ClaudeSessionSpawnError(
                    <<"Failed to extract session ID. ">> \o errorMessage)))
     ELSE cleared

\* startNewSession up to the point where it waits: spawn, the listeners' variables,
\* the timer
startNewSession(c, name, agentName, out, errOut, spawnFails) ==
  [NoCall EXCEPT !.phase = "running", !.calls = c.calls + 1, !.sessionName = name,
                 !.agentName = agentName, !.process = TRUE, !.spawnFails = spawnFails,
                 !.out = out, !.errOut = errOut, !.timeout = "armed"]

startOrResumeSession_alwaysNew(c, files, name, agentName, out, errOut, spawnFails) ==
  startNewSession(c, name, agentName, out, errOut, spawnFails)

\* startOrResumeSession(sessionName, agentName) up to its first suspension
startOrResumeSession(c, files, name, agentName, out, errOut, spawnFails) ==
  LET existingSessionResult == loadExistingSession(files, name)
  IN IF existingSessionResult.ok
     THEN [NoCall EXCEPT
             !.phase = "returned", !.calls = c.calls + 1, !.sessionName = name,
             !.agentName = agentName,
             !.result = Ok([sessionId |-> existingSessionResult.value, isNew |-> FALSE,
                            commandString |->
                              buildCommandString(existingSessionResult.value, agentName)])]
     ELSE startNewSession(c, name, agentName, out, errOut, spawnFails)

\* ---------------------------------------------------------------- AgentToolFactory
\* the values a caller can pass where the signature asks for a string
Undefined == [type |-> "undefined"]

Num(n) == [type |-> "number", number |-> n]

Str(s) == [type |-> "string", string |-> s]

typeof(v) == v.type

\* !v for such a value; empty is the empty string in the representation v.string has
falsy(v, empty) ==
  \/ v.type = "undefined"
  \/ v.type = "number" /\ v.number = 0
  \/ v.type = "string" /\ v.string = empty

AgentToolError(message) == [name |-> "AgentToolError", message |-> message]

\* Set.prototype.add on an insertion-ordered set
SetAdd(set, x) == IF \E i \in 1..Len(set) : set[i] = x THEN set ELSE Append(set, x)

\* Set.prototype.has
SetHas(set, x) == \E i \in 1..Len(set) : set[i] = x

RECURSIVE addAgents(_, _)
addAgents(set, panes) ==
  IF panes = <<>> THEN set ELSE addAgents(SetAdd(set, Head(panes).agentName), Tail(panes))

updateAvailableAgents_keepsView(availableAgents, panes) == availableAgents

\* updateAvailableAgents: the set is cleared and refilled from getAllPanes()
updateAvailableAgents(availableAgents, panes) == addAgents(<<>>, panes)

\* Array.prototype.join, as the sequence of the elements and the separators between them
RECURSIVE join(_, _)
join(list, separator) ==
  IF Len(list) <= 1 THEN list
  ELSE <<Head(list), separator>> \o join(Tail(list), separator)

AgentNotFound_omitsList(agentName, availableAgents) ==
  AgentToolError(<<"Agent \"", agentName, "\" not found. Available agents: ">>)

AgentNotFound(agentName, availableAgents) ==
  AgentToolError(<<"Agent \"", agentName, "\" not found. Available agents: ">>
                   \o join(availableAgents, ", "))

getPaneByAgentName(m, agentName) ==
  IF \E i \in 1..Len(m) : m[i].agentName = agentName
  THEN m[CHOOSE i \in 1..Len(m) : m[i].agentName = agentName]
  ELSE Absent

\* String.prototype.replace with a global pattern matching the one character from
RECURSIVE replaceAll(_, _, _)
replaceAll(str, from, to) ==
  IF str = <<>> THEN <<>>
  ELSE (IF Head(str) = from THEN to ELSE <<Head(str)>>) \o replaceAll(Tail(str), from, to)

escapeMessage_quotesOnly(message) == replaceAll(message, "'", <<"'", "\"", "'", "\"", "'">>)

\* escapeMessage: ' becomes '"'"', then a newline becomes backslash n
escapeMessage(message) ==
  replaceAll(replaceAll(message, "'", <<"'", "\"", "'", "\"", "'">>), "\n", <<"\\", "n">>)

ToolStep(availableAgents, log, res) ==
  [availableAgents |-> availableAgents, log |-> log, res |-> res]

validate_messageFirst(agentName, message) ==
  IF falsy(message, <<>>) \/ typeof(message) # "string"
  THEN Err(AgentToolError(<<"Message must be a non-empty string">>))
  ELSE IF falsy(agentName, "") \/ typeof(agentName) # "string"
  THEN Err(AgentToolError(<<"Agent name must be a non-empty string">>))
  ELSE Ok(Absent)

\* the two argument checks sendMessage opens with
validate(agentName, message) ==
  IF falsy(agentName, "") \/ typeof(agentName) # "string"
  THEN Err(AgentToolError(<<"Agent name must be a non-empty string">>))
  ELSE IF falsy(message, <<>>) \/ typeof(message) # "string"
  THEN Err(AgentToolError(<<"Message must be a non-empty string">>))
  ELSE Ok(Absent)

\* sendMessage(agentName, message) on the allocator state (m, alive); log holds the
\* sendKeys call it made, with the keys it passed, and the command that call issued
sendMessage(availableAgents, m, alive, agentName, message, cmdFails) ==
  LET valid == validate(agentName, message)
  IN IF ~valid.ok THEN ToolStep(availableAgents, <<>>, valid)
     ELSE LET available == updateAvailableAgents(availableAgents, getAllPanes(m))
              paneInfo == getPaneByAgentName(m, agentName.string)
          IN IF ~SetHas(available, agentName.string)
             THEN ToolStep(available, <<>>, Err(AgentNotFound(agentName.string, available)))
             ELSE IF paneInfo = Absent
             THEN ToolStep(available, <<>>,
                           Err(AgentToolError(<<"Pane information for agent \"",
                                                agentName.string, "\" not found">>)))
             ELSE LET escapedMessage == escapeMessage(message.string)
                      sendResult == sendKeys(m, alive, paneInfo.id, cmdFails)
                  IN ToolStep(available,
                              <<Ev("sendKeys", [paneId |-> paneInfo.id,
                                                keys |-> escapedMessage],
                                   OkErr(sendResult.ok))>> \o sendResult.cmds,
                              IF ~sendResult.ok THEN Err(sendResult.error)
                              ELSE Ok([targetAgent |-> agentName.string,
                                       message |-> message.string, success |-> TRUE]))

executeTool_swallowsFailure(availableAgents, m, alive, toolName, parameters, cmdFails) ==
  IF toolName = "send_message"
  THEN LET result == sendMessage(availableAgents, m, alive, parameters.agentName,
                                 parameters.message, cmdFails)
       IN ToolStep(result.availableAgents, result.log,
                   Ok([toolName |-> "send_message", parameters |-> parameters,
                       result |-> result.res.value]))
  ELSE ToolStep(availableAgents, <<>>, Err(AgentToolError(<<"Unknown tool: ", toolName>>)))

\* executeTool(toolName, parameters); a property parameters lacks is Undefined
executeTool(availableAgents, m, alive, toolName, parameters, cmdFails) ==
  IF toolName = "send_message"
  THEN LET result == sendMessage(availableAgents, m, alive, parameters.agentName,
                                 parameters.message, cmdFails)
       IN ToolStep(result.availableAgents, result.log,
                   IF ~result.res.ok
                   THEN Err(AgentToolError(<<"send_message failed: ",
                                             result.res.error.message>>))
                   ELSE Ok([toolName |-> "send_message", parameters |-> parameters,
                            result |-> result.res.value]))
  ELSE ToolStep(availableAgents, <<>>, Err(AgentToolError(<<"Unknown tool: ", toolName>>)))

\* ---------------------------------------------------------------- configuration
Bool(b) == [type |-> "boolean", boolean |-> b]

Issue(path, code) == [path |-> path, code |-> code]

\* z.string().min(1).max(20): the type is checked first, then the length checks in order
nameIssues(value, path) ==
  IF typeof(value) # "string" THEN <<Issue(path, "invalid_type")>>
  ELSE IF Len(value.string) < 1 THEN <<Issue(path, "too_small")>>
  ELSE IF Len(value.string) > 20 THEN <<Issue(path, "too_big")>>
  ELSE <<>>

\* z.string()
promptIssues(value, path) ==
  IF typeof(value) # "string" THEN <<Issue(path, "invalid_type")>> ELSE <<>>

\* z.boolean().default(false): an undefined value takes the default
worktreeIssues(value, path) ==
  IF typeof(value) \in {"undefined", "boolean"} THEN <<>>
  ELSE <<Issue(path, "invalid_type")>>

\* agentSchema: the keys are parsed in the order of the shape
agentIssues(agent, path) ==
  nameIssues(agent.name, Append(path, "name"))
    \o promptIssues(agent.prompt, Append(path, "prompt"))
    \o worktreeIssues(agent.worktree, Append(path, "worktree"))

agentData(agent) ==
  [name |-> agent.name.string, prompt |-> agent.prompt.string,
   worktree |-> IF typeof(agent.worktree) = "undefined" THEN FALSE
                ELSE agent.worktree.boolean]

RECURSIVE elementIssues(_, _, _)
elementIssues(agents, i, path) ==
  IF i > Len(agents) THEN <<>>
  ELSE agentIssues(agents[i], Append(path, DigitChars[i]))
         \o elementIssues(agents, i + 1, path)

\* z.array(agentSchema).min(1): the length check, then the elements by index
agentsIssues(agents, path) ==
  (IF Len(agents) < 1 THEN <<Issue(path, "too_small")>> ELSE <<>>)
    \o elementIssues(agents, 1, path)

\* z.enum(["auto", "grid", "main-vertical"]).default("auto")
layoutIssues(value, path) ==
  IF typeof(value) = "undefined" THEN <<>>
  ELSE IF typeof(value) # "string" THEN <<Issue(path, "invalid_type")>>
  ELSE IF value.string \notin Layouts THEN <<Issue(path, "invalid_enum_value")>>
  ELSE <<>>

\* squadConfigSchema
squadIssues(squad, path) ==
  agentsIssues(squad.agents, Append(path, "agents"))
    \o layoutIssues(squad.layout, Append(path, "layout"))

squadData(squad) ==
  [agents |-> [i \in 1..Len(squad.agents) |-> agentData(squad.agents[i])],
   layout |-> IF typeof(squad.layout) = "undefined" THEN "auto" ELSE squad.layout.string]

ConfigValidationError(message) ==
  [name |-> "ConfigValidationError",
   message |-> <<"Invalid phantom.config.json: ">> \o message]

\* validateConfig: safeParse of phantomConfigSchema (squad is optional); the error is
\* built from the first issue, as its dotted path and its message
validateConfig(config) ==
  IF typeof(config.squad) = "undefined" THEN Ok([squad |-> Undefined])
  ELSE LET issues == squadIssues(config.squad.value, <<"squad">>)
       IN IF issues # <<>>
          THEN LET firstError == Head(issues)
               IN Err(ConfigValidationError(join(firstError.path, ".")
                                              \o <<": ", firstError.code>>))
          ELSE Ok([squad |-> squadData(config.squad.value)])

\* ---------------------------------------------------------------- constructors
\* an optional property that the object literal does not have at all
Missing == [type |-> "missing"]

\* reading a property: a missing one reads as undefined
get(property) == IF property = Missing THEN Undefined ELSE property

\* { ...defaults, ...config } for one key: an own property of config wins, whatever
\* its value
spread(default, property) == IF property = Missing THEN default ELSE property

\* new ClaudeSessionManager(config): this.config
newClaudeSessionManager(config) ==
  [sessionDirectory |-> config.sessionDirectory,
   timeout |-> spread(Num(30000), config.timeout)]

\* new AgentOrchestrator(config): this.config, and the session manager it constructs
\* from the config it was given
newAgentOrchestrator(config) ==
  LET sessionConfig == [sessionDirectory |-> config.sessionDirectory,
                        timeout |-> get(config.agentTimeout)]
  IN [config |-> [config EXCEPT !.agentTimeout = spread(Num(60000), @)],
      sessionManager |-> newClaudeSessionManager(sessionConfig)]

\* ---------------------------------------------------------------- environment
NoFault ==
  [probeFails |-> FALSE, attachFails |-> FALSE, gitRootThrows |-> FALSE, provFail |-> 0,
   provErr |-> "GitOperationError", failAt |-> -1, killFails |-> FALSE]

\* The outcomes of the external commands one setupTeam call can meet.
Scenarios(config) ==
  LET N == Len(config.agents)
      K == Len(SelectSeq(config.agents, LAMBDA agent : agent.worktree))
      probes == {[NoFault EXCEPT !.probeFails = p] : p \in BOOLEAN}
  IN UNION {
       {[NoFault EXCEPT !.attachFails = b] : b \in BOOLEAN},
       probes,
       {[e EXCEPT !.gitRootThrows = TRUE] : e \in probes},
       {[e EXCEPT !.provFail = k, !.provErr = pe] :
          e \in probes, k \in 1..K, pe \in ProvisionErrors},
       {[e EXCEPT !.failAt = f, !.killFails = kf] :
          e \in probes, f \in 0..N, kf \in BOOLEAN} }

\* ---------------------------------------------------------------- specification
State ==
  [squadContext |-> squadContext, paneMapping |-> paneMapping,
   currentPaneIndex |-> currentPaneIndex, alive |-> tmuxAlive, spawned |-> spawned,
   worktrees |-> worktrees, laidOut |-> laidOut, log |-> <<>>]

Commit(op, config, r) ==
  /\ squadContext' = r.st.squadContext
  /\ paneMapping' = r.st.paneMapping
  /\ currentPaneIndex' = r.st.currentPaneIndex
  /\ tmuxAlive' = r.st.alive
  /\ spawned' = r.st.spawned
  /\ worktrees' = r.st.worktrees
  /\ laidOut' = r.st.laidOut
  /\ last' = [op |-> op, config |-> config, log |-> r.st.log, result |-> r.res]
  /\ UNCHANGED sessionName
  /\ UNCHANGED <<claudeVars, toolVars>>

Init ==
  /\ sessionName = DefaultSessionName
  /\ paneMapping = <<>>
  /\ currentPaneIndex = 0
  /\ squadContext = Absent
  /\ tmuxAlive \in BOOLEAN
  /\ spawned = 0
  /\ worktrees = {}
  /\ laidOut = {}
  /\ last = [op |-> "new", config |-> Absent, log |-> <<>>, result |-> Ok(Absent)]
  /\ rounds = 0
  /\ sessionFiles = EmptyStore
  /\ claude = NoCall
  /\ savedSessions = NothingSaved
  /\ tool = Absent

SetupTeam ==
  /\ rounds < MaxRounds
  /\ rounds' = rounds + 1
  /\ \E config \in TeamConfig :
       \E env \in Scenarios(config) :
         Commit("setupTeam", config, setupTeam(State, config, DefaultSessionName, env))

TerminateSquad ==
  /\ UNCHANGED rounds
  /\ \E killFails \in BOOLEAN :
       Commit("terminateSquad", Absent, terminateSquad(State, killFails))

\* createLayout called on the allocator directly (getTmuxManager())
CreateLayout ==
  /\ rounds < MaxRounds
  /\ rounds' = rounds + 1
  /\ \E config \in LayoutConfig :
       \E failAt \in -1..Len(config.agents) :
         Commit("createLayout", config, layoutStep(State, config, failAt))

\* killSession called on the allocator directly
KillSession ==
  /\ UNCHANGED rounds
  /\ \E killFails \in BOOLEAN :
       LET k == killStep(State, killFails)
       IN Commit("killSession", Absent,
                 [st |-> k.st, res |-> IF k.res.ok THEN Ok(Absent) ELSE Err(k.res.error)])

\* pane ids sendKeys is called with: every id createLayout can hand out, and one more
KeyTargets == {toString(i) : i \in 0..MaxLayoutAgents}

\* sendKeys called on the allocator directly
SendKeys ==
  /\ \E paneId \in KeyTargets, cmdFails \in BOOLEAN :
       LET k == sendKeys(paneMapping, tmuxAlive, paneId, cmdFails)
       IN last' = [op |-> "sendKeys", config |-> [paneId |-> paneId], log |-> k.cmds,
                   result |-> IF k.ok THEN Ok(Absent) ELSE Err(k.error)]
  /\ UNCHANGED <<sessionName, paneMapping, currentPaneIndex, squadContext, tmuxAlive,
                 spawned, worktrees, laidOut, rounds>>
  /\ UNCHANGED <<claudeVars, toolVars>>

\* the multiplexer session ends without the allocator (tmux kill-session by the user)
ExternalKill ==
  /\ tmuxAlive
  /\ tmuxAlive' = FALSE
  /\ spawned' = 0
  /\ last' = [op |-> "externalKill", config |-> Absent, log |-> <<>>, result |-> Ok(Absent)]
  /\ UNCHANGED <<sessionName, paneMapping, currentPaneIndex, squadContext, worktrees,
                 laidOut, rounds>>
  /\ UNCHANGED <<claudeVars, toolVars>>

Next ==
  \/ SetupTeam
  \/ TerminateSquad
  \/ ExternalKill

Spec == Init /\ [][Next]_vars

\* the Pane Allocator driven directly
NextTmux ==
  \/ CreateLayout
  \/ KillSession
  \/ SendKeys
  \/ ExternalKill

SpecTmux == Init /\ [][NextTmux]_vars

\* getSplitDirection applied on its own, with the arguments createPane can pass it:
\* any layout string, 1 <= index < totalAgents
GetSplitDirection ==
  /\ \E layout \in LayoutModes, totalAgents \in 2..MaxSplitAgents :
       \E index \in 1..(totalAgents - 1) :
         last' = [op |-> "getSplitDirection",
                  config |-> [layout |-> layout, index |-> index,
                              totalAgents |-> totalAgents],
                  log |-> <<>>,
                  result |-> Ok(getSplitDirection(layout, index, totalAgents))]
  /\ UNCHANGED <<sessionName, paneMapping, currentPaneIndex, squadContext, tmuxAlive,
                 spawned, worktrees, laidOut, rounds>>
  /\ UNCHANGED <<claudeVars, toolVars>>

SpecSplit == Init /\ [][GetSplitDirection]_vars

\* ---------------------------------------------------------------- session manager
\* files a session directory can hold before the first call: none, a token, no token
StoredContents == {TokenPrefix \o <<"b", "2">>, <<"n", "o">>}

InitClaude ==
  /\ sessionName = DefaultSessionName
  /\ paneMapping = <<>>
  /\ currentPaneIndex = 0
  /\ squadContext = Absent
  /\ tmuxAlive = FALSE
  /\ spawned = 0
  /\ worktrees = {}
  /\ laidOut = {}
  /\ last = [op |-> "new", config |-> Absent, log |-> <<>>, result |-> Ok(Absent)]
  /\ rounds = 0
  /\ tool = Absent
  /\ \E stored \in [SessionKeys -> {Absent} \cup {SessionFile(t) : t \in StoredContents}] :
       /\ sessionFiles =
            [path \in DOMAIN EmptyStore |->
               IF path = SessionDirectory
               THEN (IF \E name \in SessionKeys : stored[name] # Absent
                     THEN Directory ELSE Absent)
               ELSE IF \E name \in SessionKeys : getSessionFilePath(name) = path
                    THEN stored[CHOOSE name \in SessionKeys :
                                  getSessionFilePath(name) = path]
                    ELSE Absent]
       /\ savedSessions =
            [name \in AllNames |->
               IF name \in SessionKeys /\ stored[name] # Absent
               THEN Saved(stored[name].content) ELSE Absent]
  /\ claude = NoCall

\* a call begins once the previous one has returned; the events of the previous
\* subprocess are followed up to that point
StartOrResumeSession ==
  /\ claude.phase \in {"idle", "returned"}
  /\ claude.calls < MaxSessionCalls
  /\ \E name \in SessionKeys, agentName \in AgentNames, out \in StdoutScripts,
        errOut \in StderrScripts, spawnFails \in BOOLEAN :
       claude' = startOrResumeSession(claude, sessionFiles, name, agentName,
                                      out, errOut, spawnFails)
  /\ UNCHANGED <<sessionFiles, savedSessions>>
  /\ UNCHANGED <<squadVars, toolVars, last>>

\* a subprocess that was spawned and can still deliver events
Running == claude.process /\ ~claude.spawnFails

\* stdout delivers the next chunk of the subprocess's output, of any length
StdoutData ==
  /\ Running
  /\ claude.delivered < Len(claude.out)
  /\ \E n \in 1..(Len(claude.out) - claude.delivered), saveFails \in BOOLEAN :
       LET chunk == SubSeq(claude.out, claude.delivered + 1, claude.delivered + n)
           r == onStdoutData(claude, sessionFiles, chunk, saveFails)
       IN /\ claude' = r.claude
          /\ sessionFiles' = r.files
          /\ savedSessions' =
               IF r.claude.saved /\ ~claude.saved
               THEN [savedSessions EXCEPT ![claude.sessionName] = Saved(r.claude.sessionId)]
               ELSE savedSessions
  /\ UNCHANGED <<squadVars, toolVars, last>>

StderrData ==
  /\ Running
  /\ ~claude.errDelivered
  /\ claude.errOut # <<>>
  /\ claude' = onStderrData(claude, claude.errOut)
  /\ UNCHANGED <<sessionFiles, savedSessions>>
  /\ UNCHANGED <<squadVars, toolVars, last>>

\* the subprocess could not be spawned: "error" is emitted, and nothing else
SpawnFailure ==
  /\ claude.process
  /\ claude.spawnFails
  /\ ~claude.errored
  /\ claude' = onError(claude, "ENOENT")
  /\ UNCHANGED <<sessionFiles, savedSessions>>
  /\ UNCHANGED <<squadVars, toolVars, last>>

\* the subprocess exits: of its own with a code, or by the signal of a kill
ProcessExit ==
  /\ Running
  /\ ~claude.exited
  /\ \/ \E code \in ExitCodes : claude' = onExit(claude, code, "")
     \/ claude.kills > 0 /\ claude' = onExit(claude, "null", "SIGTERM")
  /\ UNCHANGED <<sessionFiles, savedSessions>>
  /\ UNCHANGED <<squadVars, toolVars, last>>

\* the timer fires unless it was cleared
Timeout ==
  /\ Running
  /\ claude.timeout = "armed"
  /\ claude' = onTimeout(claude)
  /\ UNCHANGED <<sessionFiles, savedSessions>>
  /\ UNCHANGED <<squadVars, toolVars, last>>

NextClaude ==
  \/ StartOrResumeSession
  \/ StdoutData
  \/ StderrData
  \/ SpawnFailure
  \/ ProcessExit
  \/ Timeout

SpecClaude == InitClaude /\ [][NextClaude]_vars

\* the event loop runs what is due: a timer that is armed fires, and a spawn that
\* failed emits its error event; the subprocess itself may stay silent and never exit
SpecClaudeLive ==
  /\ InitClaude
  /\ [][NextClaude]_vars
  /\ WF_vars(Timeout)
  /\ WF_vars(SpawnFailure)

\* ---------------------------------------------------------------- session storage
TokenB2 == TokenPrefix \o <<"b", "2">>

\* what saveSession is given to store: two tokens, a token followed by a newline, and
\* a text that is no token
SaveContents == {TokenA1, TokenB2, TokenB2 \o <<"\n">>, <<"n", "o">>}

\* the orders readdir can list a set of entries in
ReaddirOrders(entries) ==
  {order \in [1..Cardinality(entries) -> entries] :
     \A i, j \in DOMAIN order : i # j => order[i] # order[j]}

InitStore ==
  /\ sessionName = DefaultSessionName
  /\ paneMapping = <<>>
  /\ currentPaneIndex = 0
  /\ squadContext = Absent
  /\ tmuxAlive = FALSE
  /\ spawned = 0
  /\ worktrees = {}
  /\ laidOut = {}
  /\ last = [op |-> "new", config |-> Absent, log |-> <<>>, result |-> Ok(Absent)]
  /\ rounds = 0
  /\ tool = Absent
  /\ sessionFiles \in {EmptyStore, [EmptyStore EXCEPT ![SessionDirectory] = Directory]}
  /\ claude = NoCall
  /\ savedSessions = NothingSaved

\* the file a session name is stored in
FileOf(name) == sessionFiles[getSessionFilePath(name)]

StoreOp(op, name, sessionId, result) ==
  last' = [op |-> op, config |-> [name |-> name, sessionId |-> sessionId],
           log |-> <<>>, result |-> result]

SaveSession ==
  /\ \E name \in StoreNames, sessionId \in SaveContents, fails \in BOOLEAN :
       LET r == saveSession(sessionFiles, name, sessionId, fails)
       IN /\ sessionFiles' = r.files
          /\ savedSessions' = IF r.res.ok
                               THEN [savedSessions EXCEPT ![name] = Saved(sessionId)]
                               ELSE savedSessions
          /\ StoreOp("saveSession", name, sessionId, r.res)
  /\ UNCHANGED <<squadVars, toolVars, claude>>

LoadExistingSession ==
  /\ \E name \in StoreNames :
       StoreOp("loadExistingSession", name, <<>>, loadExistingSession(sessionFiles, name))
  /\ UNCHANGED <<squadVars, toolVars, claudeVars>>

RemoveSession ==
  /\ \E name \in StoreNames, fails \in BOOLEAN :
       LET r == removeSession(sessionFiles, name, fails)
       IN /\ sessionFiles' = r.files
          /\ savedSessions' = IF r.res.ok
                               THEN [savedSessions EXCEPT ![name] = Absent]
                               ELSE savedSessions
          /\ last' = [op |-> "removeSession",
                      config |-> [name |-> name, sessionId |-> <<>>],
                      log |-> IF FileOf(name) # Absent
                              THEN <<Ev("unlink", "", OkErr(~fails))>> ELSE <<>>,
                      result |-> r.res]
  /\ UNCHANGED <<squadVars, toolVars, claude>>

ListSessions ==
  /\ \E order \in ReaddirOrders(Entries(sessionFiles)), fails \in BOOLEAN :
       StoreOp("listSessions", <<>>, <<>>, listSessions(sessionFiles, order, fails))
  /\ UNCHANGED <<squadVars, toolVars, claudeVars>>

\* a session file loses its read permission from outside the manager
MakeUnreadable ==
  /\ \E path \in SessionPaths :
       /\ sessionFiles[path] # Absent
       /\ sessionFiles[path].readable
       /\ sessionFiles' = [sessionFiles EXCEPT ![path].readable = FALSE]
  /\ last' = [op |-> "chmod", config |-> Absent, log |-> <<>>, result |-> Ok(Absent)]
  /\ UNCHANGED <<squadVars, toolVars, claude, savedSessions>>

NextStore ==
  \/ SaveSession
  \/ LoadExistingSession
  \/ RemoveSession
  \/ ListSessions
  \/ MakeUnreadable

SpecStore == InitStore /\ [][NextStore]_vars

\* ---------------------------------------------------------------- messaging tool
\* values sendMessage is called with for the agent name: the roster's names, the empty
\* string, and values that are not strings
AgentValues == {Str(n) : n \in {"a", "b", "c", ""}} \cup {Undefined, Num(7)}

MessageChars == {"h", "'", "\n"}

\* every text of 1..MaxMessageLen characters
MessageTexts == UNION {[1..k -> MessageChars] : k \in 1..MaxMessageLen}

\* values sendMessage is called with for the message, apart from the texts above: one
\* plain text, the empty text, and values that are not strings
MessageValues == {Str(<<"h">>), Str(<<>>), Undefined, Num(7)}

\* the calls made on the tool: every agent value with every message value, and every
\* text to the manager's pane
MessageCalls ==
  [agentName : AgentValues, message : MessageValues, cmdFails : BOOLEAN]
    \cup [agentName : {Str("a")}, message : {Str(t) : t \in MessageTexts},
          cmdFails : {FALSE}]

ToolNames == {"send_message", "get_status"}

ToolCalls ==
  [toolName : ToolNames, agentName : {Str("a"), Str("c"), Undefined},
   message : {Str(<<"h", "'">>), Undefined}, cmdFails : BOOLEAN]

\* the squads the tool's callers lay out: the first agents of the roster
SquadConfig ==
  {[agents |-> [i \in 1..k |-> Roster[((i - 1) % Len(Roster)) + 1]], layout |-> "auto"] :
     k \in 1..MaxLayoutAgents}

\* createLayout called on an allocator that holds no panes
LayoutSquad ==
  /\ paneMapping = <<>>
  /\ UNCHANGED rounds
  /\ \E config \in SquadConfig :
       \E failAt \in -1..Len(config.agents) :
         Commit("createLayout", config, layoutStep(State, config, failAt))

\* createAgentToolFactory(tmuxManager): the constructor takes a first view of the panes
CreateAgentToolFactory ==
  /\ tool = Absent
  /\ LET available == updateAvailableAgents(<<>>, getAllPanes(paneMapping))
     IN tool' = [availableAgents |-> available, constructedWith |-> available]
  /\ last' = [op |-> "createAgentToolFactory", config |-> Absent, log |-> <<>>,
              result |-> Ok(Absent)]
  /\ UNCHANGED <<squadVars, claudeVars>>

SendMessage ==
  /\ tool # Absent
  /\ \E call \in MessageCalls :
       LET r == sendMessage(tool.availableAgents, paneMapping, tmuxAlive, call.agentName,
                            call.message, call.cmdFails)
       IN /\ tool' = [tool EXCEPT !.availableAgents = r.availableAgents]
          /\ last' = [op |-> "sendMessage",
                      config |-> [agentName |-> call.agentName, message |-> call.message],
                      log |-> r.log, result |-> r.res]
  /\ UNCHANGED <<squadVars, claudeVars>>

ExecuteTool ==
  /\ tool # Absent
  /\ \E call \in ToolCalls :
       LET parameters == [agentName |-> call.agentName, message |-> call.message]
           r == executeTool(tool.availableAgents, paneMapping, tmuxAlive, call.toolName,
                            parameters, call.cmdFails)
       IN /\ tool' = [tool EXCEPT !.availableAgents = r.availableAgents]
          /\ last' = [op |-> "executeTool",
                      config |-> [toolName |-> call.toolName,
                                  agentName |-> call.agentName,
                                  message |-> call.message],
                      log |-> r.log, result |-> r.res]
  /\ UNCHANGED <<squadVars, claudeVars>>

NextTool ==
  \/ LayoutSquad
  \/ KillSession
  \/ ExternalKill
  \/ CreateAgentToolFactory
  \/ SendMessage
  \/ ExecuteTool

SpecTool == Init /\ [][NextTool]_vars

\* ---------------------------------------------------------------- configuration file
\* a name of 21 characters
LongName == "abcdefghijklmnopqrstu"

\* agents a configuration file can hold: names that are valid, empty, too long, equal
\* to one another or not strings; the isolation flag given or left out
RawAgents ==
  [name : {Str(n) : n \in {"a", "b", "", LongName}} \cup {Num(7)},
   prompt : {Str("role.md"), Undefined},
   worktree : {Bool(TRUE), Bool(FALSE), Undefined}]

RawSquads ==
  [agents : UNION {[1..k -> RawAgents] : k \in 0..MaxConfigAgents},
   layout : {Str(l) : l \in LayoutModes} \cup {Undefined}]

Object(value) == [type |-> "object", value |-> value]

RawConfigs == {[squad |-> Object(squad)] : squad \in RawSquads} \cup {[squad |-> Undefined]}

\* a configuration file has been read
InitConfig ==
  /\ sessionName = DefaultSessionName
  /\ paneMapping = <<>>
  /\ currentPaneIndex = 0
  /\ squadContext = Absent
  /\ tmuxAlive = FALSE
  /\ spawned = 0
  /\ worktrees = {}
  /\ laidOut = {}
  /\ \E config \in RawConfigs :
       last = [op |-> "readConfig", config |-> config, log |-> <<>>, result |-> Ok(Absent)]
  /\ rounds = 0
  /\ tool = Absent
  /\ sessionFiles = EmptyStore
  /\ claude = NoCall
  /\ savedSessions = NothingSaved

ValidateConfig ==
  /\ last.op = "readConfig"
  /\ last' = [op |-> "validateConfig", config |-> last.config, log |-> <<>>,
              result |-> validateConfig(last.config)]
  /\ UNCHANGED <<squadVars, toolVars, claudeVars>>

SpecConfig == InitConfig /\ [][ValidateConfig]_vars

\* ---------------------------------------------------------------- construction
Directories == {Str(".sessions"), Str(".claude_session"), Str("/tmp/test")}

\* timeouts a configuration can hold: none, an explicit undefined, a number
Timeouts == {Missing, Undefined, Num(1), Num(30000), Num(60000)}

ClaudeSessionConfig == [sessionDirectory : Directories, timeout : Timeouts]

OrchestratorConfig ==
  [gitRoot : {Str("/repo"), Str("/work/repo")},
   worktreeDirectory : {Str(".git/phantom/worktrees"), Str("../worktrees")},
   sessionDirectory : Directories, agentTimeout : Timeouts]

\* a caller holds a configuration for one of the two constructors
InitNew ==
  /\ sessionName = DefaultSessionName
  /\ paneMapping = <<>>
  /\ currentPaneIndex = 0
  /\ squadContext = Absent
  /\ tmuxAlive = FALSE
  /\ spawned = 0
  /\ worktrees = {}
  /\ laidOut = {}
  /\ \E config \in ClaudeSessionConfig \cup OrchestratorConfig :
       last = [op |-> "config", config |-> config, log |-> <<>>, result |-> Ok(Absent)]
  /\ rounds = 0
  /\ tool = Absent
  /\ sessionFiles = EmptyStore
  /\ claude = NoCall
  /\ savedSessions = NothingSaved

NewClaudeSessionManager ==
  /\ last.op = "config"
  /\ last.config \in ClaudeSessionConfig
  /\ last' = [op |-> "new ClaudeSessionManager", config |-> last.config, log |-> <<>>,
              result |-> Ok([config |-> newClaudeSessionManager(last.config)])]
  /\ UNCHANGED <<squadVars, toolVars, claudeVars>>

NewAgentOrchestrator ==
  /\ last.op = "config"
  /\ last.config \in OrchestratorConfig
  /\ last' = [op |-> "new AgentOrchestrator", config |-> last.config, log |-> <<>>,
              result |-> Ok([config |-> newAgentOrchestrator(last.config).sessionManager])]
  /\ UNCHANGED <<squadVars, toolVars, claudeVars>>

NextNew ==
  \/ NewClaudeSessionManager
  \/ NewAgentOrchestrator

SpecNew == InitNew /\ [][NextNew]_vars

\* ---------------------------------------------------------------- session names
\* names an orchestrator is constructed with (the second is the constructor's default)
\* and names setupTeam is called with
SessionNames == {"test-squad", DefaultSessionName}

\* an orchestrator constructed with any of the names
InitNamed ==
  /\ sessionName \in SessionNames
  /\ paneMapping = <<>>
  /\ currentPaneIndex = 0
  /\ squadContext = Absent
  /\ tmuxAlive \in BOOLEAN
  /\ spawned = 0
  /\ worktrees = {}
  /\ laidOut = {}
  /\ last = [op |-> "new", config |-> Absent, log |-> <<>>, result |-> Ok(Absent)]
  /\ rounds = 0
  /\ tool = Absent
  /\ sessionFiles = EmptyStore
  /\ claude = NoCall
  /\ savedSessions = NothingSaved

\* setupTeam(squadConfig, name) called on an orchestrator that holds no squad
SetupNamedTeam ==
  /\ squadContext = Absent
  /\ UNCHANGED rounds
  /\ \E name \in SessionNames, config \in SquadConfig :
       \E env \in Scenarios(config) :
         Commit("setupTeam", config, setupTeam(State, config, name, env))

NextNamed ==
  \/ SetupNamedTeam
  \/ TerminateSquad
  \/ ExternalKill

SpecNamed == InitNamed /\ [][NextNamed]_vars

\* ---------------------------------------------------------------- property helpers
Pos(op) == {i \in 1..Len(last.log) : last.log[i].op = op}

Has(op) == Pos(op) # {}

IsSetup == last.op = "setupTeam"

WorktreeAgents(config) == {i \in 1..Len(config.agents) : config.agents[i].worktree}

\* what setupTeam changes: orchestrator state, isolation directories, multiplexer session
MutationOps ==
  {"setContext", "createWorktree", "new-session", "split-window", "select-layout",
   "kill-session", "setAgents"}

ProvisionBeforeLayout ==
  \A i \in Pos("createWorktree") : \A j \in Pos("createLayout") : i < j

LayoutBeforeAgents ==
  \A i \in Pos("setAgents") : \E j \in Pos("createLayout.return") : j < i

\* C1 as stated: in every setupTeam the probe precedes every mutation, orchestrator
\* state included; Provisioner calls precede createLayout; createLayout returns before
\* any AgentStatus is populated.
C1_ProbeBeforeAnyMutation ==
  IsSetup =>
    /\ \A i \in 1..Len(last.log) :
         last.log[i].op \in MutationOps => \E j \in Pos("has-session") : j < i
    /\ ProvisionBeforeLayout
    /\ LayoutBeforeAgents

\* C1 amended: setupTeam first re-initialises the squad context, then probes; the probe
\* precedes every other mutation (isolation directories, multiplexer session, AgentStatus
\* population); Provisioner calls precede createLayout; createLayout returns before any
\* AgentStatus is populated.
C1_ProbeBeforeExternalMutation ==
  IsSetup =>
    /\ Pos("setContext") = {1}
    /\ Pos("has-session") = {2}
    /\ \A i \in 1..Len(last.log) :
         last.log[i].op \in MutationOps \ {"setContext"} => i > 2
    /\ ProvisionBeforeLayout
    /\ LayoutBeforeAgents

C1_Witness ==
  /\ IsSetup
  /\ last.result.ok
  /\ Cardinality(Pos("createWorktree")) = 2
  /\ Has("createLayout")
  /\ Has("setAgents")

Resumed == IsSetup /\ \E i \in Pos("has-session") : last.log[i].out = "exists"

\* C2: when the probe reports an existing session, setupTeam never calls the Isolation
\* Provisioner nor createLayout, attaches exactly once, and if the attach succeeds
\* returns success with isResumed = true and no created isolation directories.
C2_ResumeProvisionsNothing ==
  Resumed =>
    /\ ~Has("createWorktree")
    /\ ~Has("createLayout")
    /\ ~Has("new-session")
    /\ Cardinality(Pos("attach-session")) = 1
    /\ \A i \in Pos("attach-session") :
         last.log[i].out = "ok" =>
           /\ last.result.ok
           /\ last.result.value.isResumed
           /\ last.result.value.createdWorktrees = <<>>

C2_Witness ==
  /\ Resumed
  /\ last.result.ok
  /\ Cardinality(WorktreeAgents(last.config)) = 2

\* C3: on the resume path the returned panes are the mapping's panes, and the returned
\* agents, and the squad context's, hold one AgentStatus per pane of the mapping.
C3_ResumeRebuildsAgents ==
  (IsSetup /\ last.result.ok /\ last.result.value.isResumed) =>
    LET panes == last.result.value.panes
        agents == last.result.value.agents
    IN /\ panes = getAllPanes(paneMapping)
       /\ Len(agents) = Len(panes)
       /\ \A i \in 1..Len(panes) :
            i <= Len(agents) =>
              agents[i].name = panes[i].agentName /\ agents[i].paneId = panes[i].id
       /\ squadContext.agents = agents

\* C4: when the Provisioner fails for an agent, setupTeam returns an error naming that
\* agent and carrying the cause, calls the Provisioner for no later agent, and calls
\* neither createLayout nor killSession.
C4_ProvisionFailureStops ==
  IsSetup =>
    \A i \in Pos("createWorktree") :
      last.log[i].out # "ok" =>
        /\ ~last.result.ok
        /\ last.result.error.name = "WorktreeSetupError"
        /\ last.result.error.agent = last.log[i].arg
        /\ last.result.error.cause.name = last.log[i].out
        /\ \A j \in Pos("createWorktree") : j <= i
        /\ ~Has("createLayout")
        /\ ~Has("new-session")
        /\ ~Has("kill-session")

C4_Witness ==
  /\ IsSetup
  /\ Cardinality(WorktreeAgents(last.config)) = 2
  /\ Cardinality(Pos("createWorktree")) = 2
  /\ \E i \in Pos("createWorktree") : last.log[i].out = "WorktreeAlreadyExistsError"

LayoutFailed == IsSetup /\ \E i \in Pos("createLayout.return") : last.log[i].out = "err"

\* C5: when createLayout fails, setupTeam calls killSession exactly once, after the
\* failure and before returning, and returns the layout error whether or not the kill
\* succeeds; it never returns success.
C5_LayoutFailureKillsOnce ==
  LayoutFailed =>
    /\ Cardinality(Pos("kill-session")) = 1
    /\ \A k \in Pos("kill-session") : \A r \in Pos("createLayout.return") : r < k
    /\ ~last.result.ok
    /\ last.result.error.name = "TmuxSetupError"
    /\ last.result.error.message = "Failed to create tmux layout"
    /\ ~Has("setAgents")

C5_Witness ==
  /\ LayoutFailed
  /\ \E i \in Pos("split-window") : last.log[i].out = "err"
  /\ \E k \in Pos("kill-session") : last.log[k].out = "err"
  /\ tmuxAlive

CreatedInCall ==
  {last.log[i].arg : i \in {j \in Pos("createWorktree") : last.log[j].out = "ok"}}

\* C6: when setupTeam fails after isolation directories were created, none of them is
\* removed: every directory created during the call exists when setupTeam returns.
C6_FailedSetupKeepsDirectories ==
  (IsSetup /\ ~last.result.ok) => CreatedInCall \subseteq worktrees

C6_Witness ==
  /\ IsSetup
  /\ ~last.result.ok
  /\ CreatedInCall # {}
  /\ \E i \in Pos("createWorktree") : last.log[i].out # "ok"

\* C7: if the probe for an existing session fails (rather than reporting the session
\* absent), setupTeam returns the session-check error and calls neither the Provisioner
\* nor createLayout.
C7_ProbeFailureIsFatal ==
  (IsSetup /\ \E i \in Pos("has-session") : last.log[i].out = "failed") =>
    /\ ~last.result.ok
    /\ last.result.error.message = "Failed to check existing tmux session"
    /\ ~Has("createWorktree")
    /\ ~Has("createLayout")

\* C8: terminateSquad calls killSession; if the kill succeeds it returns success and the
\* squad context becomes absent; if the kill fails it returns an error and the squad
\* context is left as it was.
C8_TerminateReportsKill ==
  [][last'.op = "terminateSquad" =>
       LET kills == {i \in 1..Len(last'.log) : last'.log[i].op = "kill-session"}
       IN /\ Cardinality(kills) = 1
          /\ \A i \in kills :
               /\ last'.log[i].out = "ok" =>
                    last'.result.ok /\ squadContext' = Absent
               /\ last'.log[i].out = "err" =>
                    /\ ~last'.result.ok
                    /\ last'.result.error.message = "Failed to kill tmux session"
                    /\ squadContext' = squadContext]_vars

C8_Witness ==
  /\ last.op = "terminateSquad"
  /\ ~last.result.ok
  /\ tmuxAlive
  /\ squadContext # Absent

CommandOps == {"new-session", "split-window", "select-layout"}

\* C9: when every multiplexer command succeeds, createLayout for N >= 1 agents, in any
\* layout mode and from any prior allocator state, returns exactly N panes with indices
\* 0..N-1 in order and pairwise distinct ids, pane i carrying the name of agent i; the
\* first pane has index 0 and id "0".
C9_LayoutPanes ==
  (/\ last.op = "createLayout"
   /\ Len(last.config.agents) >= 1
   /\ \A i \in 1..Len(last.log) :
        last.log[i].op \in CommandOps => last.log[i].out = "ok") =>
    /\ last.result.ok
    /\ LET panes == last.result.value
           agents == last.config.agents
       IN /\ Len(panes) = Len(agents)
          /\ \A i \in 1..Len(panes) :
               panes[i].index = i - 1 /\ panes[i].agentName = agents[i].name
          /\ \A i, j \in 1..Len(panes) : i # j => panes[i].id # panes[j].id
          /\ panes[1].id = <<"0">>

C9_Witness ==
  /\ last.op = "createLayout"
  /\ last.result.ok
  /\ rounds = 2
  /\ Len(last.config.agents) >= 2
  /\ last.config.layout = "grid"
  /\ \E i \in 1..Len(paneMapping) : paneMapping[i].agentName \notin Names(last.config.agents)

\* C10: in every reachable state the pane mapping is well formed: at most one pane per
\* agent, every spawned pane recorded under exactly one agent, pane ids pairwise
\* distinct, every pane's agentName in the SquadConfig most recently laid out.
C10_MappingWellFormed ==
  /\ \A i, j \in 1..Len(paneMapping) :
       i # j => paneMapping[i].agentName # paneMapping[j].agentName
  /\ \A p \in 0..(spawned - 1) :
       Cardinality({i \in 1..Len(paneMapping) : paneMapping[i].index = p}) = 1
  /\ \A i, j \in 1..Len(paneMapping) : i # j => paneMapping[i].id # paneMapping[j].id
  /\ \A i \in 1..Len(paneMapping) : paneMapping[i].agentName \in laidOut

IsLayout == last.op = "createLayout"

Commands(log) == {i \in 1..Len(log) : log[i].op \in CommandOps}

\* C11: createLayout called with an empty agent list fails with the 'No agents specified'
\* error before any multiplexer command is issued, and leaves the pane mapping, the
\* pane-index counter and the multiplexer session as they were.
C11_EmptyAgentsRejected ==
  [][(last'.op = "createLayout" /\ last' # last /\ last'.config.agents = <<>>) =>
       /\ ~last'.result.ok
       /\ last'.result.error = NoAgentsError
       /\ Commands(last'.log) = {}
       /\ paneMapping' = paneMapping
       /\ currentPaneIndex' = currentPaneIndex
       /\ tmuxAlive' = tmuxAlive
       /\ spawned' = spawned]_vars

C11_Witness ==
  /\ IsLayout
  /\ last.config.agents = <<>>
  /\ ~last.result.ok
  /\ ~tmuxAlive
  /\ Len(paneMapping) >= 2
  /\ currentPaneIndex >= 2

\* C12: during createLayout the first failing multiplexer command (new-session, a
\* split-window, or select-layout) aborts the operation: createLayout returns that
\* command's error, issues no further command, and returns no pane list.
C12_FirstFailureAborts ==
  IsLayout =>
    \A i \in Commands(last.log) :
      last.log[i].out = "err" =>
        /\ \A j \in Commands(last.log) : j <= i
        /\ ~last.result.ok
        /\ last.result.error = ProcessError(last.log[i].op)
        /\ last.result.value = Absent

C12_Witness ==
  /\ IsLayout
  /\ Len(last.config.agents) = 3
  /\ Cardinality(Pos("split-window")) = 1
  /\ \E i \in Pos("split-window") : last.log[i].out = "err"
  /\ tmuxAlive

Odd(n) == n % 2 = 1

\* C13: the split direction is a function of (layout mode, i, total) alone, for i >= 1:
\* grid gives horizontal for odd i and vertical for even i; main-vertical gives vertical
\* for i = 1 and horizontal for i > 1; auto gives vertical when total <= 2, vertical for
\* odd i and horizontal for even i when 3 <= total <= 4, and vertical iff i mod 3 = 1
\* when total >= 5; a mode that is none of the three behaves as auto.
C13_SplitDirectionTable ==
  last.op = "getSplitDirection" =>
    LET mode == IF last.config.layout \in Layouts THEN last.config.layout ELSE "auto"
        i == last.config.index
        total == last.config.totalAgents
        direction == last.result.value
    IN /\ direction \in {"horizontal", "vertical"}
       /\ mode = "grid" => (direction = "horizontal" <=> Odd(i))
       /\ mode = "main-vertical" => (direction = "vertical" <=> i = 1)
       /\ (mode = "auto" /\ total <= 2) => direction = "vertical"
       /\ (mode = "auto" /\ 3 <= total /\ total <= 4) => (direction = "vertical" <=> Odd(i))
       /\ (mode = "auto" /\ total >= 5) => (direction = "vertical" <=> i % 3 = 1)

C13_Witness ==
  /\ last.op = "getSplitDirection"
  /\ last.config.layout = "spiral"
  /\ last.config.totalAgents >= 5
  /\ last.config.index = 3
  /\ last.result.value = "horizontal"

\* C14: a successful createLayout for N agents issues exactly one select-layout command,
\* as its last command and after N-1 successful split-window commands; the layout name
\* is tiled for grid, main-vertical for main-vertical, and for auto or an unrecognized
\* mode even-horizontal when N <= 2 and tiled otherwise.
C14_SingleFinalTiling ==
  (IsLayout /\ last.result.ok) =>
    LET N == Len(last.config.agents)
        mode == IF last.config.layout \in Layouts THEN last.config.layout ELSE "auto"
        splits == Pos("split-window")
    IN /\ Cardinality(Pos("select-layout")) = 1
       /\ Cardinality(splits) = N - 1
       /\ \A k \in splits : last.log[k].out = "ok"
       /\ \A t \in Pos("select-layout") :
            /\ \A c \in Commands(last.log) : c <= t
            /\ last.log[t].out = "ok"
            /\ last.log[t].arg =
                 (CASE mode = "grid" -> "tiled"
                    [] mode = "main-vertical" -> "main-vertical"
                    [] mode = "auto" -> IF N <= 2 THEN "even-horizontal" ELSE "tiled")

C14_Witness ==
  /\ IsLayout
  /\ last.result.ok
  /\ last.config.layout = "spiral"
  /\ Len(last.config.agents) = 2
  /\ \E t \in Pos("select-layout") : last.log[t].arg = "even-horizontal"

\* C15: sendKeys with a pane id that no pane of the current mapping carries returns the
\* 'pane not found' error as a value and forwards nothing to the multiplexer; after a
\* successful killSession that is so for every id.
C15_UnknownPaneRejected ==
  [][(last'.op = "sendKeys" /\ last' # last) =>
       /\ (~\E i \in 1..Len(paneMapping) : paneMapping[i].id = last'.config.paneId) =>
            /\ ~last'.result.ok
            /\ last'.result.error = PaneNotFound(last'.config.paneId)
            /\ last'.log = <<>>
       /\ (last.op = "killSession" /\ last.result.ok) =>
            /\ ~last'.result.ok
            /\ last'.result.error.name = "TmuxSessionError"
            /\ last'.log = <<>>]_vars

C15_Witness ==
  /\ last.op = "sendKeys"
  /\ ~last.result.ok
  /\ last.result.error.name = "TmuxSessionError"
  /\ Len(paneMapping) >= 2
  /\ tmuxAlive
  /\ last.config.paneId = <<"2">>

\* C16: killSession empties the pane mapping and resets the pane-index counter to 0 if
\* and only if the kill command succeeds; when the kill command fails, the pane mapping
\* and the counter are exactly as before the call.
C16_KillResetsOnSuccessOnly ==
  [][last'.op = "killSession" =>
       LET kills == {i \in 1..Len(last'.log) : last'.log[i].op = "kill-session"}
       IN /\ Cardinality(kills) = 1
          /\ \A i \in kills :
               /\ last'.log[i].out = "ok" =>
                    /\ last'.result.ok
                    /\ paneMapping' = <<>>
                    /\ currentPaneIndex' = 0
               /\ last'.log[i].out = "err" =>
                    /\ ~last'.result.ok
                    /\ paneMapping' = paneMapping
                    /\ currentPaneIndex' = currentPaneIndex]_vars

C16_Witness ==
  /\ last.op = "killSession"
  /\ ~last.result.ok
  /\ tmuxAlive
  /\ Len(paneMapping) >= 2
  /\ currentPaneIndex >= 2

Contains(message, part) ==
  \E i \in 1..(Len(message) - Len(part) + 1) : SubSeq(message, i, i + Len(part) - 1) = part

Returned(c) == c.result # Absent

\* what the caller gets when the event that came first is the one c.first names
FirstEventOutcome(c) ==
  CASE c.first = "token" ->
         IF c.saved
         THEN c.result.ok /\ c.result.value.sessionId = c.sessionId
         ELSE ~c.result.ok /\ c.result.error.name = "ClaudeSessionFileError"
    [] c.first = "exit" ->
         /\ ~c.result.ok
         /\ Contains(c.result.error.message, <<"Failed to extract session ID. ">>)
    [] c.first = "timeout" ->
         /\ ~c.result.ok
         /\ Contains(c.result.error.message, <<"Session startup timed out after ">>)
    [] OTHER -> TRUE

\* C17: a new-session start resolves exactly once, with the outcome of whichever of
\* token found, process exited, timeout elapsed occurs first; events that occur
\* afterwards never change the result returned to the caller.
C17_FirstEventDecides ==
  [][/\ claude'.first \in {"token", "exit", "timeout"} =>
          Returned(claude') /\ FirstEventOutcome(claude')
     /\ (Returned(claude) /\ claude'.calls = claude.calls) =>
          claude'.result = claude.result]_vars

C17_Witness ==
  /\ claude.first = "exit"
  /\ claude.sessionId # <<>>
  /\ claude.resolves = 2
  /\ ~claude.result.ok

\* C18: if the token is the first event and it is persisted, the subprocess is
\* terminated, the record stored under sessionName is the token found, and
\* startOrResumeSession returns success with isNew = true and that token as sessionId.
C18_TokenFirstSucceeds ==
  (claude.first = "token" /\ claude.saved) =>
    /\ claude.kills >= 1
    /\ sessionFiles[getSessionFilePath(claude.sessionName)] = SessionFile(claude.sessionId)
    /\ Returned(claude)
    /\ claude.result.ok
    /\ claude.result.value.isNew
    /\ claude.result.value.sessionId =
         sessionFiles[getSessionFilePath(claude.sessionName)].content

C18_Witness ==
  /\ claude.first = "token"
  /\ claude.saved
  /\ claude.result.ok
  /\ claude.sessionId = TokenA1
  /\ Len(claude.stdout) > Len(claude.sessionId)
  /\ claude.exited

\* C19: if the timeout elapses before any token has been found, the subprocess is
\* terminated and startOrResumeSession fails with a spawn/timeout error; it never
\* returns success in that case.
C19_TimeoutFails ==
  claude.first = "timeout" =>
    /\ claude.kills >= 1
    /\ Returned(claude)
    /\ ~claude.result.ok
    /\ claude.result.error.name = "ClaudeSessionSpawnError"
    /\ Contains(claude.result.error.message, <<"Session startup timed out after ">>)

C19_Witness ==
  /\ claude.first = "timeout"
  /\ claude.sessionId # <<>>
  /\ claude.exited
  /\ ~claude.result.ok

IsLoad == last.op = "loadExistingSession"

\* C21: for every session name s and every token t matching the pattern, saveSession(s, t)
\* followed by loadExistingSession(s) returns t: the most recent save under s wins, and
\* saves and removals under other names do not affect it.
C21_SaveLoadRoundTrip ==
  LET name == last.config.name
  IN (/\ IsLoad
      /\ savedSessions[name] # Absent
      /\ isSessionId(savedSessions[name].sessionId)
      /\ (FileOf(name) # Absent => FileOf(name).readable)) =>
       /\ last.result.ok
       /\ last.result.value = savedSessions[name].sessionId

\* C22: loadExistingSession accepts a record only if its stored token matches the pattern;
\* a missing file gives a file error, an unreadable file gives a file error that differs
\* from it, and a malformed token gives a parse error.
C22_LoadClassifiesFailures ==
  IsLoad =>
    LET file == FileOf(last.config.name)
        result == last.result
    IN /\ file = Absent =>
            /\ ~result.ok
            /\ result.error.name = "ClaudeSessionFileError"
            /\ Contains(result.error.message, <<"Session file not found: ">>)
       /\ (file # Absent /\ ~file.readable) =>
            /\ ~result.ok
            /\ result.error.name = "ClaudeSessionFileError"
            /\ ~Contains(result.error.message, <<"Session file not found: ">>)
       /\ (file # Absent /\ file.readable /\ ~isSessionId(trim(file.content))) =>
            /\ ~result.ok
            /\ result.error.name = "ClaudeSessionParseError"
       /\ result.ok =>
            /\ file # Absent
            /\ file.readable
            /\ isSessionId(result.value)
            /\ result.value = trim(file.content)

C22_Witness ==
  /\ IsLoad
  /\ ~last.result.ok
  /\ FileOf(last.config.name) # Absent
  /\ ~FileOf(last.config.name).readable
  /\ \E name \in StoreNames :
       /\ FileOf(name) # Absent
       /\ FileOf(name).readable
       /\ ~isSessionId(trim(FileOf(name).content))

\* C23: removeSession(s) succeeds whether or not a record for s exists; afterwards
\* loadExistingSession(s) fails with a file error; a second removeSession(s) also
\* succeeds and changes nothing; records stored under other names are untouched.
C23_RemoveIdempotent ==
  [][(/\ last'.op = "removeSession"
      /\ \A i \in 1..Len(last'.log) : last'.log[i].out = "ok") =>
       LET name == last'.config.name
           again == removeSession(sessionFiles', name, FALSE)
       IN /\ last'.result.ok
          /\ ~loadExistingSession(sessionFiles', name).ok
          /\ loadExistingSession(sessionFiles', name).error.name = "ClaudeSessionFileError"
          /\ again.res.ok
          /\ again.files = sessionFiles'
          /\ \A other \in StoreNames \ {name} :
               savedSessions[other] # Absent =>
               loadExistingSession(sessionFiles', other)
                 = loadExistingSession(sessionFiles, other)]_vars

\* C24: after any sequence of saveSession and removeSession operations, listSessions
\* returns exactly the session names that have been saved and not removed since, each
\* once and in any order, and returns the empty list rather than an error when the
\* storage directory does not exist.
C24_ListIsSavedNames ==
  last.op = "listSessions" =>
    /\ sessionFiles[SessionDirectory] = Absent => last.result = Ok(<<>>)
    /\ last.result.ok =>
         LET names == last.result.value
         IN /\ {names[i] : i \in 1..Len(names)}
                 = {name \in AllNames : savedSessions[name] # Absent}
            /\ \A i, j \in 1..Len(names) : i # j => names[i] # names[j]

\* C25: the command string is the fixed template 'claude code --session <token>',
\* followed by ' --agent <agent>' exactly when an agent is given; the commandString
\* startOrResumeSession returns embeds the returned sessionId and the given agent name
\* on the resume path and on the new-session path alike.
C25_CommandStringTemplate ==
  (Returned(claude) /\ claude.result.ok) =>
    LET value == claude.result.value
        command == value.commandString
        n == Len(value.sessionId)
    IN /\ Len(command) > n
       /\ command[1] = "claude code --session "
       /\ SubSeq(command, 2, n + 1) = value.sessionId
       /\ IF claude.agentName = ""
          THEN Len(command) = n + 1
          ELSE /\ Len(command) = n + 3
               /\ command[n + 2] = " --agent "
               /\ command[n + 3] = claude.agentName

C25_Witness ==
  /\ Returned(claude)
  /\ claude.result.ok
  /\ ~claude.result.value.isNew
  /\ claude.agentName = "reviewer"
  /\ claude.calls = 2

\* the agent names of the panes the allocator holds now
PaneAgents == {paneMapping[i].agentName : i \in 1..Len(paneMapping)}

IsSendMessage == last.op = "sendMessage"

BadAgentName(v) == v.type # "string" \/ v.string = ""

BadMessage(v) == v.type # "string" \/ v.string = <<>>

ValidArguments(config) == ~BadAgentName(config.agentName) /\ ~BadMessage(config.message)

SentKeys == {i \in 1..Len(last.log) : last.log[i].op \in {"sendKeys", "send-keys"}}

\* C26: sendMessage to an agent name that is not in the allocator's current pane set
\* fails, the error text lists exactly the agent names now in the pane set, and no
\* keystrokes are sent to any pane.
C26_UnknownAgentListsKnown ==
  (/\ IsSendMessage
   /\ ValidArguments(last.config)
   /\ last.config.agentName.string \notin PaneAgents) =>
    /\ ~last.result.ok
    /\ last.result.error.name = "AgentToolError"
    /\ SentKeys = {}
    /\ LET message == last.result.error.message
           listed == SubSeq(message, 4, Len(message))
           names == {i \in 1..Len(listed) : Odd(i)}
       IN /\ Len(message) >= 3
          /\ message[2] = last.config.agentName.string
          /\ message[3] = "\" not found. Available agents: "
          /\ {listed[i] : i \in names} = PaneAgents
          /\ Cardinality(names) = Cardinality(PaneAgents)
          /\ \A i \in 1..Len(listed) : ~Odd(i) => listed[i] = ", "

C26_Witness ==
  /\ IsSendMessage
  /\ last.config.agentName = Str("c")
  /\ last.config.message = Str(<<"h">>)
  /\ PaneAgents = {"a", "b"}
  /\ ~last.result.ok

\* C27: every sendMessage call resolves its target against the pane mapping as it is
\* at the time of the call, not as it was when the tool was constructed: an agent
\* whose pane was created later is reachable, an agent whose pane has been removed
\* since is rejected as unknown.
C27_ResolvesAtCallTime ==
  (IsSendMessage /\ ValidArguments(last.config)) =>
    LET agentName == last.config.agentName.string
    IN IF agentName \in PaneAgents
       THEN /\ SentKeys # {}
            /\ last.log[1].op = "sendKeys"
            /\ \E i \in 1..Len(paneMapping) :
                 /\ paneMapping[i].agentName = agentName
                 /\ paneMapping[i].id = last.log[1].arg.paneId
       ELSE /\ SentKeys = {}
            /\ ~last.result.ok
            /\ last.result.error.name = "AgentToolError"
            /\ last.result.error.message[3] = "\" not found. Available agents: "

C27_Witness ==
  /\ IsSendMessage
  /\ last.result.ok
  /\ tool.constructedWith = <<>>
  /\ last.config.agentName = Str("b")

\* C28: sendMessage fails with a validation error naming the agent name when agentName
\* is empty, absent or not a string, and with one naming the message when message is
\* empty, absent or not a string; the agent name is checked first; in either case no
\* keystrokes are sent.
C28_ArgumentsValidated ==
  IsSendMessage =>
    /\ BadAgentName(last.config.agentName) =>
         /\ ~last.result.ok
         /\ last.result.error
              = [name |-> "AgentToolError",
                 message |-> <<"Agent name must be a non-empty string">>]
         /\ SentKeys = {}
    /\ (~BadAgentName(last.config.agentName) /\ BadMessage(last.config.message)) =>
         /\ ~last.result.ok
         /\ last.result.error
              = [name |-> "AgentToolError",
                 message |-> <<"Message must be a non-empty string">>]
         /\ SentKeys = {}

C28_Witness ==
  /\ IsSendMessage
  /\ last.config.agentName = Num(7)
  /\ last.config.message = Undefined
  /\ PaneAgents # {}
  /\ ~last.result.ok

\* what one character of a message is forwarded as
Forwarded(char) ==
  IF char = "'" THEN <<"'", "\"", "'", "\"", "'">>
  ELSE IF char = "\n" THEN <<"\\", "n">>
  ELSE <<char>>

RECURSIVE Concat(_)
Concat(parts) == IF parts = <<>> THEN <<>> ELSE Head(parts) \o Concat(Tail(parts))

\* C29: the text handed to sendKeys is the message with each single quote replaced by
\* the sequence quote, double quote, quote, double quote, quote and each newline by the
\* two characters backslash and n; it holds no raw newline and is otherwise the
\* message; the result returned to the caller carries the message as it was given.
C29_EscapedKeysOriginalResult ==
  (IsSendMessage /\ Has("sendKeys")) =>
    LET message == last.config.message.string
        keys == last.log[1].arg.keys
    IN /\ keys = Concat([i \in 1..Len(message) |-> Forwarded(message[i])])
       /\ \A i \in 1..Len(keys) : keys[i] # "\n"
       /\ last.result.ok => last.result.value.message = message

C29_Witness ==
  /\ IsSendMessage
  /\ last.config.message = Str(<<"'", "\n">>)
  /\ last.result.ok
  /\ Len(last.log[1].arg.keys) = 7

\* C30: executeTool has one tool: 'send_message' is dispatched to sendMessage, every
\* other name fails with an 'Unknown tool' error and sends no keystrokes; executeTool
\* succeeds only if that sendMessage call succeeded, and a failure of sendMessage is a
\* failed executeTool result.
C30_ExecuteToolDispatch ==
  [][last'.op = "executeTool" =>
       IF last'.config.toolName # "send_message"
       THEN /\ ~last'.result.ok
            /\ last'.result.error
                 = AgentToolError(<<"Unknown tool: ", last'.config.toolName>>)
            /\ last'.log = <<>>
       ELSE \E cmdFails \in BOOLEAN :
              LET r == sendMessage(tool.availableAgents, paneMapping, tmuxAlive,
                                   last'.config.agentName, last'.config.message, cmdFails)
              IN /\ last'.log = r.log
                 /\ last'.result.ok <=> r.res.ok
                 /\ r.res.ok => last'.result.value.result = r.res.value
                 /\ ~last'.result.ok => last'.result.error.name = "AgentToolError"]_vars

C30_Witness ==
  /\ last.op = "executeTool"
  /\ last.config.toolName = "send_message"
  /\ ~last.result.ok
  /\ Len(last.log) = 2
  /\ last.log[2].out = "err"

ValidatedSquad ==
  /\ last.op = "validateConfig"
  /\ last.result.ok
  /\ last.result.value.squad # Undefined

\* C31: configuration validation rejects every squad configuration in which two
\* agents share a name: a squad that passes validation has pairwise distinct agent names.
C31_ValidatedNamesDistinct ==
  ValidatedSquad =>
    LET agents == last.result.value.squad.agents
    IN \A i, j \in 1..Len(agents) : i # j => agents[i].name # agents[j].name

\* the other requirements validation is said to enforce: at least one agent, names of
\* 1..20 characters, a layout of the enumeration (auto when left out), a flag that
\* defaults to false
ValidatedSquadWellFormed ==
  ValidatedSquad =>
    LET squad == last.result.value.squad
        raw == last.config.squad.value
    IN /\ Len(squad.agents) >= 1
       /\ squad.layout \in Layouts
       /\ typeof(raw.layout) = "undefined" => squad.layout = "auto"
       /\ \A i \in 1..Len(squad.agents) :
            /\ Len(squad.agents[i].name) \in 1..20
            /\ squad.agents[i].worktree \in BOOLEAN
            /\ typeof(raw.agents[i].worktree) = "undefined" => ~squad.agents[i].worktree

\* the createWorktree calls of the last operation, in the order they were made
ProvisionCalls == SelectSeq(last.log, LAMBDA e : e.op = "createWorktree")

BuildPath == IsSetup /\ \E i \in Pos("has-session") : last.log[i].out = "absent"

\* C32: on the build path the Isolation Provisioner is invoked one call after the
\* other, once for each agent with the isolation flag and never for another agent, in
\* configuration order, with the agent's name as directory name and as branch name and
\* with base HEAD; on success the created-directories list of the result holds the
\* returned paths in that order.
C32_ProvisionInConfigOrder ==
  BuildPath =>
    LET flagged == SelectSeq(last.config.agents, LAMBDA agent : agent.worktree)
        calls == ProvisionCalls
    IN /\ Len(calls) <= Len(flagged)
       /\ \A i \in 1..Len(calls) :
            /\ calls[i].arg = flagged[i].name
            /\ calls[i].options = [branch |-> flagged[i].name, base |-> "HEAD"]
            /\ i < Len(calls) => calls[i].out = "ok"
       /\ (/\ \A i \in Pos("getGitRoot") : last.log[i].out = "ok"
           /\ \A i \in 1..Len(calls) : calls[i].out = "ok") =>
            Len(calls) = Len(flagged)
       /\ last.result.ok =>
            /\ Len(calls) = Len(flagged)
            /\ last.result.value.createdWorktrees = [i \in 1..Len(calls) |-> calls[i].arg]

C32_Witness ==
  /\ BuildPath
  /\ last.result.ok
  /\ Len(last.config.agents) = 2
  /\ last.config.agents[1].name = "c"
  /\ last.config.agents[2].name = "b"
  /\ last.result.value.createdWorktrees = <<"b">>
  /\ Len(ProvisionCalls) = 1

\* calls that would start a conversation or type into a pane
AgentStartOps == {"startOrResumeSession", "sendKeys", "send-keys"}

ValidRecord(files, name) ==
  LET file == files[getSessionFilePath(name)]
  IN /\ file # Absent
     /\ file.readable
     /\ isSessionId(trim(file.content))

\* C34: when a valid record exists for sessionName, startOrResumeSession returns
\* success with isNew = false and the stored token as sessionId, spawns no subprocess,
\* starts no timer, and leaves the stored record as it is.
C34_ResumeIsReadOnly ==
  [][(/\ claude'.calls = claude.calls + 1
      /\ ValidRecord(sessionFiles, claude'.sessionName)) =>
       /\ Returned(claude')
       /\ claude'.result.ok
       /\ ~claude'.result.value.isNew
       /\ claude'.result.value.sessionId
            = trim(sessionFiles[getSessionFilePath(claude'.sessionName)].content)
       /\ ~claude'.process
       /\ claude'.timeout = "none"
       /\ claude'.kills = 0
       /\ sessionFiles' = sessionFiles]_vars

C34_Witness ==
  /\ claude.calls = 1
  /\ Returned(claude)
  /\ claude.result.ok
  /\ ~claude.result.value.isNew
  /\ claude.result.value.sessionId = TokenPrefix \o <<"b", "2">>
  /\ ~claude.process
  /\ claude.timeout = "none"

\* the timeout the caller's configuration supplies to the session manager
SuppliedTimeout ==
  IF last.op = "new AgentOrchestrator" THEN last.config.agentTimeout
  ELSE last.config.timeout

\* C35: a Session Continuity Manager whose configuration supplies no timeout value
\* (the field is absent or undefined, as when the orchestrator is constructed without
\* agentTimeout) uses the default of 30000 ms; the effective timeout is always a
\* defined positive number.
C35_DefaultTimeout ==
  last.op \in {"new ClaudeSessionManager", "new AgentOrchestrator"} =>
    LET timeout == last.result.value.config.timeout
    IN /\ typeof(timeout) = "number"
       /\ timeout.number > 0
       /\ SuppliedTimeout \in {Missing, Undefined} => timeout = Num(30000)

\* C36: a startOrResumeSession call that returns an error has written no session
\* record, in every interleaving of the timer, stdout-data, exit and error events, a
\* token delivered after the timeout fired or after the exit event included: the call
\* stores a record under sessionName only if it returned success.
C36_ErrorWritesNothing ==
  claude.saved => (Returned(claude) /\ claude.result.ok)

\* C38: the token a new-session start extracts does not depend on how the standard
\* output is split into chunks: once the whole output has been delivered, the sessionId
\* found, returned and persisted is the token of the whole output, never a prefix of it.
C38_ChunkingIrrelevant ==
  (claude.delivered = Len(claude.out) /\ claude.sessionId # <<>>) =>
    /\ claude.sessionId = sessionMatch(claude.out)
    /\ claude.result.ok => claude.result.value.sessionId = sessionMatch(claude.out)
    /\ claude.saved =>
         sessionFiles[getSessionFilePath(claude.sessionName)].content
           = sessionMatch(claude.out)

\* C37: the session name reported in setupTeam's result and stored in the squad
\* context is the name of the multiplexer session that was probed, attached or
\* created: it equals the Pane Allocator's getSessionName().
C37_ReportedNameIsAllocatorName ==
  IsSetup =>
    /\ squadContext.sessionName = sessionName
    /\ last.result.ok => last.result.value.sessionName = sessionName

\* the first setupTeam call on an orchestrator has returned an error
FirstSetupFailed == IsSetup /\ rounds = 1 /\ ~last.result.ok

\* C39: starting from a freshly constructed orchestrator, whenever setupTeam returns
\* an error the pane mapping is empty and the pane-index counter is 0, so that no pane
\* of the failed setup stays addressable, also when the rollback kill itself fails.
C39_FailedSetupLeavesNoPanes ==
  FirstSetupFailed => (paneMapping = <<>> /\ currentPaneIndex = 0)

\* C40: every startOrResumeSession call eventually returns a result: provided the
\* timer fires unless it has been cleared, the new-session start resolves in every
\* ordering of the stdout-data, exit, error and timeout events; no ordering clears the
\* timer and leaves the call unresolved.
C40_CallReturns ==
  (claude.phase = "running") ~> Returned(claude)

C40_Witness ==
  /\ Returned(claude)
  /\ claude.timeout = "cleared"
  /\ claude.first = "exit"
  /\ claude.exited
  /\ claude.sessionId = <<>>
  /\ claude.delivered = 0

====
